---- MODULE Spec2Model ----
(***************************************************************************)
(* Model of the Convex backend of the fitness app:                         *)
(*   - generateResponse with retryWithBackoff, getMessages, addMessage,    *)
(*     clearMessages (src/convex/messages.ts, lines 1-228);                *)
(*   - analyzeFoodImage with retryWithBackoff (src/unnamed/part_000,       *)
(*     lines 1-172);                                                       *)
(*   - generatePlan, validateWorkoutPlan, validateDietPlan, createPlan,    *)
(*     getUserPlans (src/unnamed/part_000, lines 174-403).                 *)
(* src/convex/messages.ts, lines 230-380, and src/convex/calories.ts hold  *)
(* the earlier variants of generateResponse and analyzeFoodImage, which    *)
(* call one model once, without retryWithBackoff; they are not modelled.   *)
(*                                                                         *)
(* Strings are TLA+ strings; String.prototype.includes / startsWith are    *)
(* computed character by character.  Every `await` of the handlers is a    *)
(* separate action; the code between two awaits is one atomic step.        *)
(*                                                                         *)
(* Specifications: Spec, one request of any action against every answer    *)
(* of the provider; SpecPlans, concurrent generatePlan requests and        *)
(* createPlan calls; SpecChat, one chat request on a store that holds a    *)
(* transcript, with clearMessages and addMessage calls; SpecNormalize, the *)
(* three normalizers on the values JSON.parse may return.                  *)
(***************************************************************************)
EXTENDS Integers, Sequences, FiniteSets, TLC

VARIABLES
  apiKey,        \* process.env.GEMINI_API_KEY is set
  chatMessages,  \* table "chatMessages", in creation order
  plans,         \* table "plans", in creation order
  req,           \* per request: the handler's position and its locals
  createCalls,   \* history: the arguments of the createPlan calls that ran, in order
  page           \* the calorie-counter page: its React state and pending FileReaders

vars == <<apiKey, chatMessages, plans, req, createCalls, page>>

----------------------------------------------------------------------------
(* Bounds of the model *)

\* createPlan is enabled while the plans table holds fewer rows than this
MaxPlans == 3

\* the requests that may run concurrently
Procs == {1, 2}

Users == {"u1", "u2"}

\* values of Date.now() an insert may observe
Timestamps == {1, 2}

\* the longest transcript a chat starts from, and the turns clients add themselves
MaxTurns == 13
MaxClientTurns == 1

----------------------------------------------------------------------------
(* String helpers *)

\* String.prototype.includes
Includes(s, sub) ==
  \E k \in 1..(Len(s) - Len(sub) + 1) : SubSeq(s, k, k + Len(sub) - 1) = sub

\* String.prototype.startsWith
StartsWith(s, pre) == Len(s) >= Len(pre) /\ SubSeq(s, 1, Len(pre)) = pre

\* Math.pow(2, n) for n >= 0
RECURSIVE Pow2(_)
Pow2(n) == IF n <= 0 THEN 1 ELSE 2 * Pow2(n - 1)

----------------------------------------------------------------------------
(* The provider: what one model call may answer *)

NoError == ""

\* messages of the errors the generative-AI SDK raises
ErrOverloaded == "[GoogleGenerativeAI Error]: The model is overloaded. Please try again later."
ErrUnavailable == "[GoogleGenerativeAI Error]: [503 Service Unavailable]"
ErrKeyInvalid == "[GoogleGenerativeAI Error]: [400 Bad Request] API key not valid. Please pass a valid API key."
ErrQuota == "[GoogleGenerativeAI Error]: [429 Too Many Requests] You exceeded your current quota"
ErrSafety == "[GoogleGenerativeAI Error]: Candidate was blocked due to SAFETY"
ErrBadImage == "[GoogleGenerativeAI Error]: [400 Bad Request] Provided image is not valid: invalid image data"
ErrBadInput == "[GoogleGenerativeAI Error]: [400 Bad Request] Request contains an invalid argument"

ProviderErrors ==
  {ErrOverloaded, ErrUnavailable, ErrKeyInvalid, ErrQuota, ErrSafety, ErrBadImage, ErrBadInput}

\* the error raised by the handlers' own credential check
ErrKeyMissing == "GEMINI_API_KEY is not configured in environment variables"

Failure(m) == [ok |-> FALSE, text |-> "", message |-> m]
\* a call that has not answered yet
Pending == [ok |-> FALSE, text |-> "", message |-> "pending"]
Success(t) == [ok |-> TRUE, text |-> t, message |-> NoError]

ChatTexts == {"Start with three sets of squats.", "I can help only with fitness, diet, or health-related questions."}

----------------------------------------------------------------------------
(* JSON values, as JavaScript sees them after JSON.parse *)

JUndefined == [t |-> "undefined"]
JNull == [t |-> "null"]
JNaN == [t |-> "nan"]
JStr(s) == [t |-> "str", s |-> s]
\* the number n + tenths/10
JFrac(n, tenths) == [t |-> "num", n |-> n, tenths |-> tenths]
JNum(n) == JFrac(n, 0)
JArr(a) == [t |-> "arr", a |-> a]
JObj(o) == [t |-> "obj", o |-> o]

\* v.key (v is neither null nor undefined)
Get(v, key) == IF v.t = "obj" /\ key \in DOMAIN v.o THEN v.o[key] ELSE JUndefined

\* v?.key
GetOpt(v, key) == IF v.t \in {"undefined", "null"} THEN JUndefined ELSE Get(v, key)

\* ToBoolean
Truthy(v) ==
  CASE v.t \in {"undefined", "null", "nan"} -> FALSE
    [] v.t = "str" -> v.s # ""
    [] v.t = "num" -> ~(v.n = 0 /\ v.tenths = 0)
    [] v.t = "bool" -> v.b
    [] OTHER -> TRUE

\* a || b
Or(a, b) == IF Truthy(a) THEN a ELSE b

Digits == <<"0", "1", "2", "3", "4", "5", "6", "7", "8", "9">>
IsDigit(c) == \E d \in 1..10 : Digits[d] = c
DigitValue(c) == (CHOOSE d \in 1..10 : Digits[d] = c) - 1
IsSpace(c) == c \in {" ", "\n", "\t", "\r"}

\* String.prototype.trim
RECURSIVE TrimStart(_)
TrimStart(s) ==
  IF Len(s) > 0 /\ IsSpace(SubSeq(s, 1, 1)) THEN TrimStart(SubSeq(s, 2, Len(s))) ELSE s
RECURSIVE TrimEnd(_)
TrimEnd(s) ==
  IF Len(s) > 0 /\ IsSpace(SubSeq(s, Len(s), Len(s))) THEN TrimEnd(SubSeq(s, 1, Len(s) - 1)) ELSE s
Trim(s) == TrimEnd(TrimStart(s))

\* the value of the longest prefix of decimal digits of s, continuing from acc
RECURSIVE DigitsValue(_, _)
DigitsValue(s, acc) ==
  IF Len(s) > 0 /\ IsDigit(SubSeq(s, 1, 1))
    THEN DigitsValue(SubSeq(s, 2, Len(s)), 10 * acc + DigitValue(SubSeq(s, 1, 1)))
    ELSE acc

HexDigits == <<"0", "1", "2", "3", "4", "5", "6", "7", "8", "9", "a", "b", "c", "d", "e", "f">>
UpperHexDigits == <<"0", "1", "2", "3", "4", "5", "6", "7", "8", "9", "A", "B", "C", "D", "E", "F">>
IsHexDigit(c) == \E d \in 1..16 : HexDigits[d] = c \/ UpperHexDigits[d] = c
HexDigitValue(c) == (CHOOSE d \in 1..16 : HexDigits[d] = c \/ UpperHexDigits[d] = c) - 1

\* the value of the longest prefix of hexadecimal digits of s, continuing from acc
RECURSIVE HexDigitsValue(_, _)
HexDigitsValue(s, acc) ==
  IF Len(s) > 0 /\ IsHexDigit(SubSeq(s, 1, 1))
    THEN HexDigitsValue(SubSeq(s, 2, Len(s)), 16 * acc + HexDigitValue(SubSeq(s, 1, 1)))
    ELSE acc

\* parseInt of a string: leading white space, a sign, then decimal digits, or
\* hexadecimal digits after 0x
parseIntStr(str) ==
  LET s == TrimStart(str)
      neg == StartsWith(s, "-")
      body == IF StartsWith(s, "-") \/ StartsWith(s, "+") THEN SubSeq(s, 2, Len(s)) ELSE s
      hex == StartsWith(body, "0x") \/ StartsWith(body, "0X")
      digits == IF hex THEN SubSeq(body, 3, Len(body)) ELSE body
      value == IF hex THEN HexDigitsValue(digits, 0) ELSE DigitsValue(digits, 0)
  IN IF Len(digits) > 0 /\ (IF hex THEN IsHexDigit(SubSeq(digits, 1, 1))
                                   ELSE IsDigit(SubSeq(digits, 1, 1)))
       THEN JNum(IF neg THEN 0 - value ELSE value)
       ELSE JNaN

\* parseInt(v): v is converted to a string first; an array to its elements joined
\* by commas, so that its first element decides
RECURSIVE parseInt(_)
parseInt(v) ==
  CASE v.t = "str" -> parseIntStr(v.s)
    [] v.t = "num" -> JNum(IF v.n < 0 /\ v.tenths > 0 THEN v.n + 1 ELSE v.n)
    [] v.t = "arr" -> IF Len(v.a) = 0 THEN JNaN ELSE parseInt(v.a[1])
    [] OTHER -> JNaN

\* typeof v === "number"
IsNumber(v) == v.t \in {"num", "nan"}

Ok(v) == [ok |-> TRUE, value |-> v, message |-> NoError]
Err(m) == [ok |-> FALSE, value |-> JUndefined, message |-> m]

\* the texts the model answers generatePlan's two prompts with, and what
\* JSON.parse makes of them
WorkoutJson == "{\"schedule\":[\"Monday\"],\"exercises\":[{\"day\":\"Monday\",\"routines\":[{\"name\":\"Squat\",\"sets\":3,\"reps\":\"As many as possible\"}]}]}"
DietJson == "{\"dailyCalories\":\"2200\",\"meals\":[{\"name\":\"Breakfast\",\"foods\":[\"Oatmeal\"],\"notes\":\"warm\"}]}"
FoodJson == "{\"foodName\":\"Apple\",\"calories\":95}"
NotJson == "Sorry, I cannot help with that."
\* a one-word answer, which JSON.parse quotes in the message of its SyntaxError
OverloadedText == "overloaded"

WorkoutValue ==
  JObj([schedule |-> JArr(<<JStr("Monday")>>),
        exercises |-> JArr(<<JObj([day |-> JStr("Monday"),
          routines |-> JArr(<<JObj([name |-> JStr("Squat"), sets |-> JNum(3),
                                    reps |-> JStr("As many as possible")])>>)])>>)])
DietValue ==
  JObj([dailyCalories |-> JStr("2200"),
        meals |-> JArr(<<JObj([name |-> JStr("Breakfast"), foods |-> JArr(<<JStr("Oatmeal")>>),
                               notes |-> JStr("warm")])>>)])
FoodValue == JObj([foodName |-> JStr("Apple"), calories |-> JNum(95)])

\* answers that are JSON of another shape than the prompts ask for
WorkoutNoRoutinesJson == "{\"schedule\":[\"Monday\"],\"exercises\":[{\"day\":\"Monday\"}]}"
WorkoutLooseJson == "{\"schedule\":[\"Monday\"],\"exercises\":[{\"day\":\"Monday\",\"routines\":[{\"name\":\"Plank\",\"sets\":0,\"reps\":2.5},{\"name\":\"Row\",\"sets\":-1,\"reps\":\"12 reps\"}]}]}"
DietNoMealsJson == "{\"dailyCalories\":2200}"
DietLooseJson == "{\"dailyCalories\":2200.5,\"meals\":[]}"
FoodStringJson == "{\"foodName\":\"Apple\",\"calories\":\"95\"}"
FoodFractionJson == "{\"foodName\":\"Apple\",\"calories\":95.5,\"nutritionalInfo\":{\"protein\":\"0.5g\"}}"
FoodWordJson == "{\"calories\":\"about a hundred\"}"
NullJson == "null"

WorkoutNoRoutinesValue ==
  JObj([schedule |-> JArr(<<JStr("Monday")>>),
        exercises |-> JArr(<<JObj([day |-> JStr("Monday")])>>)])
WorkoutLooseValue ==
  JObj([schedule |-> JArr(<<JStr("Monday")>>),
        exercises |-> JArr(<<JObj([day |-> JStr("Monday"),
          routines |-> JArr(<<JObj([name |-> JStr("Plank"), sets |-> JNum(0),
                                    reps |-> JFrac(2, 5)]),
                              JObj([name |-> JStr("Row"), sets |-> JNum(0 - 1),
                                    reps |-> JStr("12 reps")])>>)])>>)])
DietNoMealsValue == JObj([dailyCalories |-> JNum(2200)])
DietLooseValue == JObj([dailyCalories |-> JFrac(2200, 5), meals |-> JArr(<<>>)])
FoodStringValue == JObj([foodName |-> JStr("Apple"), calories |-> JStr("95")])
FoodFractionValue ==
  JObj([foodName |-> JStr("Apple"), calories |-> JFrac(95, 5),
        nutritionalInfo |-> JObj([protein |-> JStr("0.5g")])])
FoodWordValue == JObj([calories |-> JStr("about a hundred")])

\* JSON.parse on the texts of the model: white space around the value is skipped
JSONparse(text) ==
  LET s == Trim(text) IN
  CASE s = WorkoutJson -> Ok(WorkoutValue)
    [] s = DietJson -> Ok(DietValue)
    [] s = FoodJson -> Ok(FoodValue)
    [] s = WorkoutNoRoutinesJson -> Ok(WorkoutNoRoutinesValue)
    [] s = WorkoutLooseJson -> Ok(WorkoutLooseValue)
    [] s = DietNoMealsJson -> Ok(DietNoMealsValue)
    [] s = DietLooseJson -> Ok(DietLooseValue)
    [] s = FoodStringJson -> Ok(FoodStringValue)
    [] s = FoodFractionJson -> Ok(FoodFractionValue)
    [] s = FoodWordJson -> Ok(FoodWordValue)
    [] s = NullJson -> Ok(JNull)
    [] s = OverloadedText -> Err("Unexpected token 'o', \"overloaded\" is not valid JSON")
    [] OTHER -> Err("Unexpected token in JSON at position 0")

----------------------------------------------------------------------------
(* Error classification *)

\* the service-busy test of retryWithBackoff and of generateContent
isOverloaded(errorMessage) ==
  Includes(errorMessage, "overloaded") \/ Includes(errorMessage, "503")

MsgBusy == "The AI service is currently busy. Please try again in a few moments."
MsgConfig == "API configuration error. Please contact support."
MsgQuota == "API quota exceeded. Please try again later."
MsgSafety == "The image was blocked by safety filters. Please try a different image."
MsgBadImage == "Invalid image format. Please try a different image."

\* the catch block of generateResponse: the message of the Error it throws
ChatErrorMessage(errorMessage) ==
  IF isOverloaded(errorMessage) THEN MsgBusy
  ELSE IF Includes(errorMessage, "API key") \/ Includes(errorMessage, "API_KEY_INVALID")
    THEN MsgConfig
  ELSE IF Includes(errorMessage, "quota") \/ Includes(errorMessage, "QUOTA_EXCEEDED")
    THEN MsgQuota
  ELSE "Failed to generate AI response: " \o errorMessage

\* mutant: the quota test comes before the service-busy test
FoodErrorMessage_QuotaFirst(errorMessage) ==
  IF Includes(errorMessage, "quota") \/ Includes(errorMessage, "QUOTA_EXCEEDED")
    THEN MsgQuota
  ELSE IF isOverloaded(errorMessage) THEN MsgBusy
  ELSE IF Includes(errorMessage, "API key") \/ Includes(errorMessage, "API_KEY_INVALID")
    THEN MsgConfig
  ELSE IF Includes(errorMessage, "SAFETY") THEN MsgSafety
  ELSE IF Includes(errorMessage, "invalid") /\ Includes(errorMessage, "image")
    THEN MsgBadImage
  ELSE "Failed to analyze the image: " \o errorMessage

\* the catch block of analyzeFoodImage
FoodErrorMessage(errorMessage) ==
  IF isOverloaded(errorMessage) THEN MsgBusy
  ELSE IF Includes(errorMessage, "API key") \/ Includes(errorMessage, "API_KEY_INVALID")
    THEN MsgConfig
  ELSE IF Includes(errorMessage, "quota") \/ Includes(errorMessage, "QUOTA_EXCEEDED")
    THEN MsgQuota
  ELSE IF Includes(errorMessage, "SAFETY") THEN MsgSafety
  ELSE IF Includes(errorMessage, "invalid") /\ Includes(errorMessage, "image")
    THEN MsgBadImage
  ELSE "Failed to analyze the image: " \o errorMessage

----------------------------------------------------------------------------
(* Requests *)

\* the arguments retryWithBackoff is called with
maxRetries == 3
initialDelay == 2000

PrimaryModel == "gemini-2.0-flash"
FallbackModel == "gemini-2.5-pro"

\* a request slot no handler runs in
Idle ==
  [ pc |-> "idle", action |-> "none", userId |-> "", userMessage |-> "",
    i |-> 0, lastError |-> NoError, conversationHistory |-> <<>>,
    aiResponse |-> "", text |-> "", parsedData |-> JUndefined, food |-> JUndefined,
    fitness_goal |-> "",
    workoutPlan |-> JUndefined, dietPlan |-> JUndefined, planId |-> 0,
    returned |-> FALSE, error |-> NoError, thrown |-> NoError,
    delay |-> 0, waits |-> <<>>, inflight |-> 0, calls |-> <<>>, attempts |-> <<>> ]

\* useState(null) of selectedImage, of imageFile, of analysis and of error
NoImage == ""
NoFile == [name |-> "", type |-> "", size |-> 0, bytes |-> ""]
NoAnalysis == JNull
NoMessage == ""

\* the page after its first render: nothing selected, no FileReader, nothing sent
PageStart ==
  [ selectedImage |-> NoImage, imageFile |-> NoFile, isAnalyzing |-> FALSE,
    analysis |-> NoAnalysis, error |-> NoMessage,
    readers |-> {}, picks |-> 0, sent |-> <<>> ]

Init ==
  /\ apiKey \in BOOLEAN
  /\ chatMessages = <<>>
  /\ plans = <<>>
  /\ req = [p \in Procs |-> Idle]
  /\ createCalls = <<>>
  /\ page = PageStart

\* the handler of request p moves to r
Goto(p, r) == req' = [req EXCEPT ![p] = r]

\* a model call of request p is issued (sendMessage / generateContent)
IssueCall(r, role, model) ==
  [r EXCEPT !.inflight = @ + 1,
            !.calls = Append(@, [role |-> role, model |-> model, attempt |-> r.i,
                                 history |-> r.conversationHistory,
                                 message |-> r.userMessage, outcome |-> Pending])]

\* the pending model call of request p has answered o
AnswerCall(r, o) ==
  [r EXCEPT !.inflight = @ - 1,
            !.calls = [@ EXCEPT ![Len(@)].outcome = o]]

\* the handler's promise rejects with an Error of this message
Throw(r, message) == [r EXCEPT !.pc = "failed", !.thrown = message]

\* the handler's catch block binds the error of this message
Caught(r, errorMessage) == [r EXCEPT !.error = errorMessage]

\* the catch block of the handler running in r
HandlerCatch(r, errorMessage) ==
  IF r.action = "generateResponse"
    THEN Throw(Caught(r, errorMessage), ChatErrorMessage(errorMessage))
  ELSE IF r.action = "analyzeFoodImage"
    THEN Throw(Caught(r, errorMessage), FoodErrorMessage(errorMessage))
  ELSE Throw(r, errorMessage)

\* retryWithBackoff: fn() resolved with text, which retryWithBackoff returns
RetryReturn(r, text) ==
  LET s == [r EXCEPT !.attempts = Append(@, Success(text))] IN
  IF r.action = "generateResponse"
    THEN [s EXCEPT !.pc = "addAssistantMessage", !.aiResponse = text]
    ELSE [s EXCEPT !.pc = "parse", !.text = text]

\* mutant: the delay is not doubled
RetryCatch_ConstantDelay(r, errorMessage) ==
  LET s == [r EXCEPT !.attempts = Append(@, Failure(errorMessage)),
                     !.lastError = errorMessage] IN
  IF isOverloaded(errorMessage) /\ r.i < maxRetries - 1
    THEN [s EXCEPT !.pc = "backoff", !.delay = initialDelay]
    ELSE HandlerCatch(s, errorMessage)

\* mutant: every error is retried
RetryCatch_RetryAnyError(r, errorMessage) ==
  LET s == [r EXCEPT !.attempts = Append(@, Failure(errorMessage)),
                     !.lastError = errorMessage] IN
  IF r.i < maxRetries - 1
    THEN [s EXCEPT !.pc = "backoff", !.delay = initialDelay * Pow2(r.i)]
    ELSE HandlerCatch(s, errorMessage)

\* mutant: a backoff wait also follows the last attempt
RetryCatch_WaitAfterLast(r, errorMessage) ==
  LET s == [r EXCEPT !.attempts = Append(@, Failure(errorMessage)),
                     !.lastError = errorMessage] IN
  IF isOverloaded(errorMessage) /\ r.i < maxRetries
    THEN [s EXCEPT !.pc = "backoff", !.delay = initialDelay * Pow2(r.i)]
    ELSE HandlerCatch(s, errorMessage)

\* mutant: a busy failure of the last attempt is followed by a wait as well
RetryCatch_WaitsAfterLastAttempt(r, errorMessage) ==
  LET s == [r EXCEPT !.attempts = Append(@, Failure(errorMessage)),
                     !.lastError = errorMessage] IN
  IF isOverloaded(errorMessage) /\ r.i < maxRetries
    THEN [s EXCEPT !.pc = "backoff", !.delay = initialDelay * Pow2(r.i)]
    ELSE HandlerCatch(s, errorMessage)

\* retryWithBackoff: the catch block of the loop, fn() rejected with errorMessage
RetryCatch(r, errorMessage) ==
  LET s == [r EXCEPT !.attempts = Append(@, Failure(errorMessage)),
                     !.lastError = errorMessage] IN
  IF isOverloaded(errorMessage) /\ r.i < maxRetries - 1
    THEN [s EXCEPT !.pc = "backoff", !.delay = initialDelay * Pow2(r.i)]
    ELSE HandlerCatch(s, errorMessage)

\* mutant: the fallback call is issued without awaiting the primary call
PrimaryCall_NoAwait(p) ==
  /\ req[p].pc = "primary"
  /\ Goto(p, [IssueCall(IssueCall(req[p], "primary", PrimaryModel), "fallback", FallbackModel)
                EXCEPT !.pc = "fallbackPending"])
  /\ UNCHANGED <<apiKey, chatMessages, plans, createCalls, page>>

\* generateContent: the primary model is called
PrimaryCall(p) ==
  /\ req[p].pc = "primary"
  /\ Goto(p, [IssueCall(req[p], "primary", PrimaryModel) EXCEPT !.pc = "primaryPending"])
  /\ UNCHANGED <<apiKey, chatMessages, plans, createCalls, page>>

\* mutant: the fallback model is tried after any error of the primary
PrimaryReturn_FallbackOnAnyError(p, o) ==
  /\ req[p].pc = "primaryPending"
  /\ LET r == AnswerCall(req[p], o) IN
       Goto(p, IF o.ok THEN RetryReturn(r, o.text) ELSE [r EXCEPT !.pc = "fallback"])
  /\ UNCHANGED <<apiKey, chatMessages, plans, createCalls, page>>

\* generateContent: the primary model answered; its catch block on an error
PrimaryReturn(p, o) ==
  /\ req[p].pc = "primaryPending"
  /\ LET r == AnswerCall(req[p], o) IN
       Goto(p, IF o.ok THEN RetryReturn(r, o.text)
               ELSE IF isOverloaded(o.message) THEN [r EXCEPT !.pc = "fallback"]
               ELSE RetryCatch(r, o.message))
  /\ UNCHANGED <<apiKey, chatMessages, plans, createCalls, page>>

\* generateContent: the fallback model is called
FallbackCall(p) ==
  /\ req[p].pc = "fallback"
  /\ Goto(p, [IssueCall(req[p], "fallback", FallbackModel) EXCEPT !.pc = "fallbackPending"])
  /\ UNCHANGED <<apiKey, chatMessages, plans, createCalls, page>>

\* mutant: any error of the fallback model is retried while attempts remain
FallbackReturn_RetriesAnyError(p, o) ==
  /\ req[p].pc = "fallbackPending"
  /\ LET r == AnswerCall(req[p], o) IN
       Goto(p, IF o.ok THEN RetryReturn(r, o.text)
               ELSE RetryCatch_RetryAnyError(r, o.message))
  /\ UNCHANGED <<apiKey, chatMessages, plans, createCalls, page>>

\* generateContent: the fallback model answered
FallbackReturn(p, o) ==
  /\ req[p].pc = "fallbackPending"
  /\ LET r == AnswerCall(req[p], o) IN
       Goto(p, IF o.ok THEN RetryReturn(r, o.text) ELSE RetryCatch(r, o.message))
  /\ UNCHANGED <<apiKey, chatMessages, plans, createCalls, page>>

\* mutant: the attempt after a wait goes on with the fallback model
BackoffElapsed_KeepsFallback(p) ==
  /\ req[p].pc = "backoff"
  /\ LET r == [req[p] EXCEPT !.waits = Append(@, req[p].delay), !.delay = 0, !.i = @ + 1] IN
       Goto(p, IF r.i < maxRetries THEN [r EXCEPT !.pc = "fallback"]
               ELSE HandlerCatch(r, r.lastError))
  /\ UNCHANGED <<apiKey, chatMessages, plans, createCalls, page>>

\* retryWithBackoff: the setTimeout of the backoff fired; continue, i++, loop test
BackoffElapsed(p) ==
  /\ req[p].pc = "backoff"
  /\ LET r == [req[p] EXCEPT !.waits = Append(@, req[p].delay), !.delay = 0, !.i = @ + 1] IN
       Goto(p, IF r.i < maxRetries THEN [r EXCEPT !.pc = "primary"]
               ELSE HandlerCatch(r, r.lastError))
  /\ UNCHANGED <<apiKey, chatMessages, plans, createCalls, page>>

\* an Error with the message held in lastError was thrown inside the try block of
\* the handler; its catch block runs
CatchError(p) ==
  /\ req[p].pc = "thrown"
  /\ Goto(p, HandlerCatch(req[p], req[p].lastError))
  /\ UNCHANGED <<apiKey, chatMessages, plans, createCalls, page>>

----------------------------------------------------------------------------
(* convex/messages.ts *)

\* getMessages: the turns of userId, ascending by creation
getMessages(userId) == SelectSeq(chatMessages, LAMBDA m : m.userId = userId)

\* mutant: the newest turn is part of the window, slice(-10)
SliceLast_IncludesNewest(s) ==
  LET n == Len(s)
      from == IF n - 10 < 0 THEN 0 ELSE n - 10
  IN SubSeq(s, from + 1, n)

\* Array.prototype.slice(-11, -1)
SliceLast(s) ==
  LET n == Len(s)
      from == IF n - 11 < 0 THEN 0 ELSE n - 11
      to == IF n - 1 < 0 THEN 0 ELSE n - 1
  IN SubSeq(s, from + 1, to)

\* the history generateResponse builds from the stored turns
BuildHistory(messages) ==
  LET w == SliceLast(messages) IN
  [k \in 1..Len(w) |->
     [role |-> IF w[k].role = "user" THEN "user" ELSE "model", text |-> w[k].content]]

\* mutant: the newest turn is replaced by the new one
addMessage_Overwrites(userId, role, content, timestamp) ==
  LET row == [userId |-> userId, role |-> role, content |-> content, timestamp |-> timestamp] IN
  IF chatMessages = <<>> THEN <<row>>
  ELSE [chatMessages EXCEPT ![Len(chatMessages)] = row]

\* addMessage: the table after the insert
addMessage(userId, role, content, timestamp) ==
  Append(chatMessages,
         [userId |-> userId, role |-> role, content |-> content, timestamp |-> timestamp])

\* generateResponse is invoked: the credential check, then addMessage is requested
generateResponse(p, userId, userMessage) ==
  /\ req[p].pc = "idle"
  /\ LET r == [Idle EXCEPT !.action = "generateResponse", !.userId = userId,
                           !.userMessage = userMessage] IN
       Goto(p, IF ~apiKey THEN HandlerCatch(r, ErrKeyMissing)
               ELSE [r EXCEPT !.pc = "addUserMessage"])
  /\ UNCHANGED <<apiKey, chatMessages, plans, createCalls, page>>

\* mutant: the user turn is not stored before the model is called
AddUserMessage_NotStored(p, timestamp) ==
  /\ req[p].pc = "addUserMessage"
  /\ Goto(p, [req[p] EXCEPT !.pc = "getMessages"])
  /\ UNCHANGED <<apiKey, chatMessages, plans, createCalls, page>>

\* the user turn is stored; getMessages is requested
AddUserMessage(p, timestamp) ==
  /\ req[p].pc = "addUserMessage"
  /\ chatMessages' = addMessage(req[p].userId, "user", req[p].userMessage, timestamp)
  /\ Goto(p, [req[p] EXCEPT !.pc = "getMessages"])
  /\ UNCHANGED <<apiKey, plans, createCalls, page>>

\* the stored turns are read and the history is built; retryWithBackoff starts
GetMessages(p) ==
  /\ req[p].pc = "getMessages"
  /\ Goto(p, [req[p] EXCEPT !.pc = "primary", !.i = 0,
                            !.conversationHistory = BuildHistory(getMessages(req[p].userId))])
  /\ UNCHANGED <<apiKey, chatMessages, plans, createCalls, page>>

\* the assistant turn is stored and generateResponse returns aiResponse
AddAssistantMessage(p, timestamp) ==
  /\ req[p].pc = "addAssistantMessage"
  /\ chatMessages' = addMessage(req[p].userId, "assistant", req[p].aiResponse, timestamp)
  /\ Goto(p, [req[p] EXCEPT !.pc = "done", !.returned = TRUE])
  /\ UNCHANGED <<apiKey, plans, createCalls, page>>

UserMessages == {"How many squats?"}

\* mutant: the turns are deleted without the by_user filter
clearMessages_EveryOwner(userId) == SelectSeq(chatMessages, LAMBDA m : FALSE)

\* clearMessages: the table after every turn of userId was deleted
clearMessages(userId) == SelectSeq(chatMessages, LAMBDA m : m.userId # userId)

\* a client calls the public mutation clearMessages
ClearMessages(userId) ==
  /\ chatMessages' = clearMessages(userId)
  /\ UNCHANGED <<apiKey, plans, req, createCalls, page>>

\* the turns in the store that a client added by calling addMessage itself
ClientText == "Note to self"
ClientTurns == Cardinality({k \in 1..Len(chatMessages) : chatMessages[k].content = ClientText})

\* a client calls the public mutation addMessage itself
AddMessage(userId, role, content, timestamp) ==
  /\ ClientTurns < MaxClientTurns
  /\ chatMessages' = addMessage(userId, role, content, timestamp)
  /\ UNCHANGED <<apiKey, plans, req, createCalls, page>>

----------------------------------------------------------------------------
(* convex/calories.ts, latest version *)

\* the fence marker of three backquotes is written ~~~ in the texts of the model
Fence == "~~~"

\* the place of the first occurrence of pat in s, 0 when there is none
IndexOf(s, pat) ==
  LET at == {i \in 1..(Len(s) - Len(pat) + 1) : SubSeq(s, i, i + Len(pat) - 1) = pat} IN
  IF at = {} THEN 0 ELSE CHOOSE i \in at : \A j \in at : i <= j

\* what follows the first occurrence of pat in s, less the line feed behind it
AfterMatch(s, pat) ==
  LET rest == SubSeq(s, IndexOf(s, pat) + Len(pat), Len(s)) IN
  IF StartsWith(rest, "\n") THEN SubSeq(rest, 2, Len(rest)) ELSE rest

\* s.replace(/<pat>\n?/g, ""); the string is bound as v, so that it is evaluated once
RECURSIVE RemoveAll(_, _)
RemoveAll(s, pat) ==
  CHOOSE out \in
    { IF IndexOf(v, pat) = 0 THEN v
      ELSE SubSeq(v, 1, IndexOf(v, pat) - 1) \o RemoveAll(AfterMatch(v, pat), pat) :
        v \in {s} } : TRUE

\* the JSON text analyzeFoodImage extracts from the model's answer
StripFence(text) ==
  LET jsonText == Trim(text) IN
  IF StartsWith(jsonText, Fence \o "json")
    THEN RemoveAll(RemoveAll(jsonText, Fence \o "json"), Fence)
  ELSE IF StartsWith(jsonText, Fence) THEN RemoveAll(jsonText, Fence)
  ELSE jsonText

TypeErrorNull == "Cannot read properties of null"
TypeErrorUndefined == "Cannot read properties of undefined"

\* mutant: description has no fallback sentence
FoodResult_NoFallbackSentence(parsedData) ==
  IF parsedData.t = "null" THEN Err(TypeErrorNull \o " (reading 'foodName')")
  ELSE
  LET nutritionalInfo == Get(parsedData, "nutritionalInfo") IN
  Ok([foodName |-> Or(Get(parsedData, "foodName"), JStr("Unknown Food")),
      calories |-> Or(Get(parsedData, "calories"), JNum(0)),
      servingSize |-> Or(Get(parsedData, "servingSize"), JStr("Unknown")),
      confidence |-> Or(Get(parsedData, "confidence"), JStr("low")),
      nutritionalInfo |->
        [protein |-> Or(GetOpt(nutritionalInfo, "protein"), JStr("N/A")),
         carbs |-> Or(GetOpt(nutritionalInfo, "carbs"), JStr("N/A")),
         fat |-> Or(GetOpt(nutritionalInfo, "fat"), JStr("N/A")),
         fiber |-> Or(GetOpt(nutritionalInfo, "fiber"), JStr("N/A"))],
      description |-> Get(parsedData, "description")])

\* the object analyzeFoodImage returns for parsedData
FoodResult(parsedData) ==
  IF parsedData.t = "null" THEN Err(TypeErrorNull \o " (reading 'foodName')")
  ELSE
  LET nutritionalInfo == Get(parsedData, "nutritionalInfo") IN
  Ok([foodName |-> Or(Get(parsedData, "foodName"), JStr("Unknown Food")),
      calories |-> Or(Get(parsedData, "calories"), JNum(0)),
      servingSize |-> Or(Get(parsedData, "servingSize"), JStr("Unknown")),
      confidence |-> Or(Get(parsedData, "confidence"), JStr("low")),
      nutritionalInfo |->
        [protein |-> Or(GetOpt(nutritionalInfo, "protein"), JStr("N/A")),
         carbs |-> Or(GetOpt(nutritionalInfo, "carbs"), JStr("N/A")),
         fat |-> Or(GetOpt(nutritionalInfo, "fat"), JStr("N/A")),
         fiber |-> Or(GetOpt(nutritionalInfo, "fiber"), JStr("N/A"))],
      description |-> Or(Get(parsedData, "description"), JStr("Could not analyze the food."))])

\* text -> the returned object, or the error raised on the way
NormalizeFoodText(text) ==
  LET parsed == JSONparse(StripFence(text)) IN
  IF parsed.ok THEN FoodResult(parsed.value) ELSE parsed

\* analyzeFoodImage is invoked: the credential check, then retryWithBackoff starts
analyzeFoodImage(p) ==
  /\ req[p].pc = "idle"
  /\ LET r == [Idle EXCEPT !.action = "analyzeFoodImage"] IN
       Goto(p, IF ~apiKey THEN HandlerCatch(r, ErrKeyMissing)
               ELSE [r EXCEPT !.pc = "primary", !.i = 0])
  /\ UNCHANGED <<apiKey, chatMessages, plans, createCalls, page>>

\* mutant: the parsing runs inside the function that retryWithBackoff repeats
NormalizeFood_InsideRetry(p) ==
  /\ req[p].pc = "parse"
  /\ req[p].action = "analyzeFoodImage"
  /\ \E jsonText \in {StripFence(req[p].text)} :
     \E parsed \in {JSONparse(jsonText)} :
     \E n \in {IF parsed.ok THEN FoodResult(parsed.value) ELSE parsed} :
       Goto(p, IF n.ok THEN [req[p] EXCEPT !.pc = "done", !.returned = TRUE, !.food = n.value]
               ELSE RetryCatch(req[p], n.message))
  /\ UNCHANGED <<apiKey, chatMessages, plans, createCalls, page>>

\* the answer is parsed and normalized; analyzeFoodImage returns or throws
NormalizeFood(p) ==
  /\ req[p].pc = "parse"
  /\ req[p].action = "analyzeFoodImage"
  /\ \E jsonText \in {StripFence(req[p].text)} :
     \E parsed \in {JSONparse(jsonText)} :
     \E n \in {IF parsed.ok THEN FoodResult(parsed.value) ELSE parsed} :
       Goto(p, IF n.ok THEN [req[p] EXCEPT !.pc = "done", !.returned = TRUE, !.food = n.value]
               ELSE HandlerCatch(req[p], n.message))
  /\ UNCHANGED <<apiKey, chatMessages, plans, createCalls, page>>

\* the return statement of analyzeFoodImage, on the parsedData JSON.parse returned
ReturnFood(p) ==
  /\ req[p].pc = "foodParsed"
  /\ LET n == FoodResult(req[p].parsedData) IN
       Goto(p, IF n.ok THEN [req[p] EXCEPT !.pc = "done", !.returned = TRUE, !.food = n.value]
               ELSE HandlerCatch(req[p], n.message))
  /\ UNCHANGED <<apiKey, chatMessages, plans, createCalls, page>>

FoodTexts ==
  {Fence \o "json\n" \o FoodJson \o "\n" \o Fence, NotJson, NullJson, FoodStringJson,
   Fence \o "\n" \o FoodFractionJson \o "\n" \o Fence, FoodWordJson, OverloadedText}

----------------------------------------------------------------------------
(* convex/plans.ts *)

PlanModel == "gemini-2.5-pro"

\* results of mapping f over the array a: the array of values, or the first error
MapResults(rs) ==
  IF \A k \in 1..Len(rs) : rs[k].ok
    THEN Ok(JArr([k \in 1..Len(rs) |-> rs[k].value]))
    ELSE rs[CHOOSE k \in 1..Len(rs) : ~rs[k].ok /\ \A l \in 1..(k - 1) : rs[l].ok]

\* { ...v, extra }: the own properties of an object, none for a primitive
Spread(v, extra) ==
  LET own == IF v.t = "obj" THEN v.o ELSE [k \in {} |-> JUndefined] IN
  JObj([k \in DOMAIN own \cup DOMAIN extra |-> IF k \in DOMAIN extra THEN extra[k] ELSE own[k]])

\* the elements of an array, none for any other value
Items(a) == IF a.t = "arr" THEN a.a ELSE <<>>

\* a.map(f), given the results rs of f on Items(a): a TypeError unless a is an array
MapOver(a, rs, what) ==
  IF a.t \in {"undefined", "null"}
    THEN Err((IF a.t = "null" THEN TypeErrorNull ELSE TypeErrorUndefined) \o " (reading 'map')")
  ELSE IF a.t # "arr" THEN Err(what \o ".map is not a function")
  ELSE MapResults(rs)

\* property access v.key as the code performs it: a TypeError on null and undefined
Read(v, key) ==
  IF v.t \in {"undefined", "null"}
    THEN Err((IF v.t = "null" THEN TypeErrorNull ELSE TypeErrorUndefined)
             \o " (reading '" \o key \o "')")
    ELSE Ok(Get(v, key))

\* typeof x === "number" ? x : parseInt(x) || dflt
CoerceNumber(x, dflt) == IF IsNumber(x) THEN x ELSE Or(parseInt(x), JNum(dflt))

\* mutant: reps falls back to the default of sets
validateRoutine_OneDefault(routine) ==
  LET sets == Read(routine, "sets") IN
  IF ~sets.ok THEN sets
  ELSE Ok(Spread(routine, [sets |-> CoerceNumber(Get(routine, "sets"), 3),
                           reps |-> CoerceNumber(Get(routine, "reps"), 3)]))

validateRoutine(routine) ==
  LET sets == Read(routine, "sets") IN
  IF ~sets.ok THEN sets
  ELSE Ok(Spread(routine, [sets |-> CoerceNumber(Get(routine, "sets"), 3),
                           reps |-> CoerceNumber(Get(routine, "reps"), 10)]))

validateExercise(exercise) ==
  LET routines == Read(exercise, "routines") IN
  IF ~routines.ok THEN routines
  ELSE LET mapped == MapOver(routines.value,
                            [k \in 1..Len(Items(routines.value)) |->
                               validateRoutine(Items(routines.value)[k])],
                            "exercise.routines") IN
       IF ~mapped.ok THEN mapped ELSE Ok(Spread(exercise, [routines |-> mapped.value]))

\* validateWorkoutPlan: the plan with plan.exercises replaced, or the TypeError raised
validateWorkoutPlan(plan) ==
  LET exercises == Read(plan, "exercises") IN
  IF ~exercises.ok THEN exercises
  ELSE IF ~Truthy(exercises.value) THEN Ok(plan)
  ELSE LET mapped == MapOver(exercises.value,
                            [k \in 1..Len(Items(exercises.value)) |->
                               validateExercise(Items(exercises.value)[k])],
                            "plan.exercises") IN
       IF ~mapped.ok THEN mapped ELSE Ok(Spread(plan, [exercises |-> mapped.value]))

projectMeal(meal) ==
  LET name == Read(meal, "name") IN
  IF ~name.ok THEN name
  ELSE Ok(JObj([name |-> Get(meal, "name"), foods |-> Get(meal, "foods")]))

\* validateDietPlan
validateDietPlan(plan) ==
  LET dailyCalories == Read(plan, "dailyCalories") IN
  IF ~dailyCalories.ok THEN dailyCalories
  ELSE LET meals == MapOver(Get(plan, "meals"),
                           [k \in 1..Len(Items(Get(plan, "meals"))) |->
                              projectMeal(Items(Get(plan, "meals"))[k])],
                           "plan.meals") IN
       IF ~meals.ok THEN meals
       ELSE Ok(JObj([dailyCalories |-> CoerceNumber(dailyCalories.value, 2000),
                     meals |-> meals.value]))

\* validateWorkoutPlan is applied to the parsedData JSON.parse returned
ValidateWorkout(p) ==
  /\ req[p].pc = "workoutParsed"
  /\ LET plan == validateWorkoutPlan(req[p].parsedData) IN
       Goto(p, IF plan.ok THEN [req[p] EXCEPT !.pc = "validated", !.workoutPlan = plan.value]
               ELSE HandlerCatch(req[p], plan.message))
  /\ UNCHANGED <<apiKey, chatMessages, plans, createCalls, page>>

\* validateDietPlan is applied to the parsedData JSON.parse returned
ValidateDiet(p) ==
  /\ req[p].pc = "dietParsed"
  /\ LET plan == validateDietPlan(req[p].parsedData) IN
       Goto(p, IF plan.ok THEN [req[p] EXCEPT !.pc = "validated", !.dietPlan = plan.value]
               ELSE HandlerCatch(req[p], plan.message))
  /\ UNCHANGED <<apiKey, chatMessages, plans, createCalls, page>>

\* the argument validators of createPlan
IsObjectOf(v, keys) == v.t = "obj" /\ DOMAIN v.o = keys
IsArray(v) == v.t = "arr"
IsString(v) == v.t = "str"
IsRoutine(v) ==
  /\ IsObjectOf(v, {"name", "sets", "reps"})
  /\ IsString(v.o.name) /\ IsNumber(v.o.sets) /\ IsNumber(v.o.reps)
IsExercise(v) ==
  /\ IsObjectOf(v, {"day", "routines"})
  /\ IsString(v.o.day) /\ IsArray(v.o.routines)
  /\ \A k \in 1..Len(Items(v.o.routines)) : IsRoutine(v.o.routines.a[k])
IsWorkoutPlan(v) ==
  /\ IsObjectOf(v, {"schedule", "exercises"})
  /\ IsArray(v.o.schedule) /\ IsArray(v.o.exercises)
  /\ \A k \in 1..Len(Items(v.o.schedule)) : IsString(v.o.schedule.a[k])
  /\ \A k \in 1..Len(Items(v.o.exercises)) : IsExercise(v.o.exercises.a[k])
IsMeal(v) ==
  /\ IsObjectOf(v, {"name", "foods"})
  /\ IsString(v.o.name) /\ IsArray(v.o.foods)
  /\ \A k \in 1..Len(Items(v.o.foods)) : IsString(v.o.foods.a[k])
IsDietPlan(v) ==
  /\ IsObjectOf(v, {"dailyCalories", "meals"})
  /\ IsNumber(v.o.dailyCalories) /\ IsArray(v.o.meals)
  /\ \A k \in 1..Len(Items(v.o.meals)) : IsMeal(v.o.meals.a[k])
ValidPlanArgs(a) == IsWorkoutPlan(a.workoutPlan) /\ IsDietPlan(a.dietPlan)

ErrArgumentValidation == "ArgumentValidationError: Value does not match validator."

\* mutant: the active plans of the owner are not patched
createPlan_NoDeactivate(table, a) ==
  Append(table,
         [id |-> Len(table) + 1, userId |-> a.userId, name |-> a.name,
          workoutPlan |-> a.workoutPlan, dietPlan |-> a.dietPlan,
          isActive |-> a.isActive])

\* mutant: the active plans of the owner are deleted instead of patched
createPlan_DeleteActive(table, a) ==
  Append(SelectSeq(table, LAMBDA q : ~(q.userId = a.userId /\ q.isActive = TRUE)),
         [id |-> Len(table) + 1, userId |-> a.userId, name |-> a.name,
          workoutPlan |-> a.workoutPlan, dietPlan |-> a.dietPlan,
          isActive |-> a.isActive])

\* mutant: the active plans are patched only when the new plan is active
createPlan_PatchIfActive(table, a) ==
  LET patched == [k \in 1..Len(table) |->
                    IF a.isActive /\ table[k].userId = a.userId /\ table[k].isActive = TRUE
                      THEN [table[k] EXCEPT !.isActive = FALSE]
                      ELSE table[k]]
  IN Append(patched,
            [id |-> Len(table) + 1, userId |-> a.userId, name |-> a.name,
             workoutPlan |-> a.workoutPlan, dietPlan |-> a.dietPlan,
             isActive |-> a.isActive])

\* createPlan: the table after the handler ran (one transaction)
createPlan(table, a) ==
  LET patched == [k \in 1..Len(table) |->
                    IF table[k].userId = a.userId /\ table[k].isActive = TRUE
                      THEN [table[k] EXCEPT !.isActive = FALSE]
                      ELSE table[k]]
  IN Append(patched,
            [id |-> Len(table) + 1, userId |-> a.userId, name |-> a.name,
             workoutPlan |-> a.workoutPlan, dietPlan |-> a.dietPlan,
             isActive |-> a.isActive])

\* getUserPlans: the plans of userId, newest first
RECURSIVE Reverse(_)
Reverse(s) == IF Len(s) = 0 THEN <<>> ELSE Append(Reverse(Tail(s)), Head(s))
getUserPlans(userId) == Reverse(SelectSeq(plans, LAMBDA q : q.userId = userId))

\* new Date().toLocaleDateString()
Dates == {"11/1/2026"}
FitnessGoals == {"Build muscle"}

\* requests of generatePlan that have not yet reached createPlan
PendingPlans == Cardinality({q \in Procs : req[q].action = "generatePlan"
                                           /\ req[q].pc \notin {"done", "failed"}})

\* generatePlan is invoked: the model is configured and the workout prompt built
generatePlan(p, userId, fitness_goal) ==
  /\ req[p].pc = "idle"
  /\ Len(plans) + PendingPlans < MaxPlans
  /\ Goto(p, [Idle EXCEPT !.action = "generatePlan", !.userId = userId,
                          !.fitness_goal = fitness_goal, !.pc = "workout"])
  /\ UNCHANGED <<apiKey, chatMessages, plans, createCalls, page>>

\* model.generateContent(workoutPrompt) is called
WorkoutCall(p) ==
  /\ req[p].pc = "workout"
  /\ Goto(p, [IssueCall(req[p], "workout", PlanModel) EXCEPT !.pc = "workoutPending"])
  /\ UNCHANGED <<apiKey, chatMessages, plans, createCalls, page>>

\* the workout answer arrived: JSON.parse, validateWorkoutPlan, the diet prompt
WorkoutReturn(p, o) ==
  /\ req[p].pc = "workoutPending"
  /\ LET r == AnswerCall(req[p], o)
         parsed == JSONparse(o.text)
         plan == validateWorkoutPlan(parsed.value)
     IN Goto(p, IF ~o.ok THEN HandlerCatch(r, o.message)
                ELSE IF ~parsed.ok THEN HandlerCatch(r, parsed.message)
                ELSE IF ~plan.ok THEN HandlerCatch(r, plan.message)
                ELSE [r EXCEPT !.pc = "diet", !.workoutPlan = plan.value])
  /\ UNCHANGED <<apiKey, chatMessages, plans, createCalls, page>>

\* model.generateContent(dietPrompt) is called
DietCall(p) ==
  /\ req[p].pc = "diet"
  /\ Goto(p, [IssueCall(req[p], "diet", PlanModel) EXCEPT !.pc = "dietPending"])
  /\ UNCHANGED <<apiKey, chatMessages, plans, createCalls, page>>

\* mutant: createPlan is requested whatever the diet call answered
DietReturn_IgnoresFailure(p, o) ==
  /\ req[p].pc = "dietPending"
  /\ LET r == AnswerCall(req[p], o)
         parsed == JSONparse(o.text)
         plan == validateDietPlan(parsed.value)
     IN Goto(p, IF o.ok /\ parsed.ok /\ plan.ok
                  THEN [r EXCEPT !.pc = "createPlan", !.dietPlan = plan.value]
                  ELSE [r EXCEPT !.pc = "createPlan", !.dietPlan = validateDietPlan(DietValue).value])
  /\ UNCHANGED <<apiKey, chatMessages, plans, createCalls, page>>

\* the diet answer arrived: JSON.parse, validateDietPlan, createPlan is requested
DietReturn(p, o) ==
  /\ req[p].pc = "dietPending"
  /\ LET r == AnswerCall(req[p], o)
         parsed == JSONparse(o.text)
         plan == validateDietPlan(parsed.value)
     IN Goto(p, IF ~o.ok THEN HandlerCatch(r, o.message)
                ELSE IF ~parsed.ok THEN HandlerCatch(r, parsed.message)
                ELSE IF ~plan.ok THEN HandlerCatch(r, plan.message)
                ELSE [r EXCEPT !.pc = "createPlan", !.dietPlan = plan.value])
  /\ UNCHANGED <<apiKey, chatMessages, plans, createCalls, page>>

\* the arguments generatePlan passes to createPlan
PlanArgs(r, date) ==
  [userId |-> r.userId, dietPlan |-> r.dietPlan, isActive |-> TRUE,
   workoutPlan |-> r.workoutPlan, name |-> r.fitness_goal \o " Plan - " \o date]

\* ctx.runMutation(api.plans.createPlan, ...) ran; generatePlan returns planId
RunCreatePlan(p, date) ==
  /\ req[p].pc = "createPlan"
  /\ LET a == PlanArgs(req[p], date) IN
       IF ValidPlanArgs(a)
         THEN /\ plans' = createPlan(plans, a)
              /\ createCalls' = Append(createCalls, a)
              /\ Goto(p, [req[p] EXCEPT !.pc = "done", !.returned = TRUE,
                                        !.planId = Len(plans) + 1])
         ELSE /\ UNCHANGED <<plans, createCalls>>
              /\ Goto(p, HandlerCatch(req[p], ErrArgumentValidation))
  /\ UNCHANGED <<apiKey, chatMessages, page>>

\* a client calls the public mutation createPlan itself
CreatePlan(a) ==
  /\ Len(plans) + PendingPlans < MaxPlans
  /\ ValidPlanArgs(a)
  /\ plans' = createPlan(plans, a)
  /\ createCalls' = Append(createCalls, a)
  /\ UNCHANGED <<apiKey, chatMessages, req, page>>

\* the client has received the answer of request p; the slot is free again
Finish(p) ==
  /\ req[p].pc \in {"done", "failed"}
  /\ Goto(p, Idle)
  /\ UNCHANGED <<apiKey, chatMessages, plans, createCalls, page>>

\* what the provider may answer a call with: without a credential, only a refusal
Answers(texts) ==
  IF apiKey THEN {Success(t) : t \in texts} \cup {Failure(m) : m \in ProviderErrors}
  ELSE {Failure(ErrKeyInvalid)}

WorkoutTexts == {WorkoutJson, NotJson, WorkoutNoRoutinesJson, WorkoutLooseJson}
DietTexts == {DietJson, NotJson, DietNoMealsJson, DietLooseJson}

\* what a model call of the handler running in r may answer
Outcomes(r) == Answers(IF r.action = "generateResponse" THEN ChatTexts ELSE FoodTexts)

----------------------------------------------------------------------------
(* One request of any of the three actions, against every answer of the provider *)

Next ==
  \E p \in {1} :
    \/ \E u \in Users, m \in UserMessages : generateResponse(p, u, m)
    \/ \E t \in Timestamps : AddUserMessage(p, t)
    \/ GetMessages(p)
    \/ analyzeFoodImage(p)
    \/ PrimaryCall(p)
    \/ \E o \in Outcomes(req[p]) : PrimaryReturn(p, o)
    \/ FallbackCall(p)
    \/ \E o \in Outcomes(req[p]) : FallbackReturn(p, o)
    \/ BackoffElapsed(p)
    \/ \E t \in Timestamps : AddAssistantMessage(p, t)
    \/ NormalizeFood(p)
    \/ \E u \in Users, g \in FitnessGoals : generatePlan(p, u, g)
    \/ WorkoutCall(p)
    \/ \E o \in Answers(WorkoutTexts) : WorkoutReturn(p, o)
    \/ DietCall(p)
    \/ \E o \in Answers(DietTexts) : DietReturn(p, o)
    \/ \E d \in Dates : RunCreatePlan(p, d)

Spec == Init /\ [][Next]_vars

\* the same, where every model call answers, every wait elapses and every handler
\* goes on to its next step
SpecFair == Spec /\ WF_vars(Next)

----------------------------------------------------------------------------
(* The plans table under concurrent generatePlan requests and createPlan calls *)

\* the arguments a client passes to createPlan directly
ClientPlanArgs ==
  { [userId |-> u, name |-> "My plan", isActive |-> b,
     workoutPlan |-> validateWorkoutPlan(WorkoutValue).value,
     dietPlan |-> validateDietPlan(DietValue).value] : u \in Users, b \in BOOLEAN }

\* the answers of the provider the plan requests run against
PlanAnswers(texts) ==
  IF apiKey THEN {Success(t) : t \in texts} \cup {Failure(ErrUnavailable)}
  ELSE {Failure(ErrKeyInvalid)}

\* the texts the model answers the two prompts with: the JSON asked for, prose,
\* and JSON that lacks a nested collection
PlanWorkoutTexts == {WorkoutJson, NotJson, WorkoutNoRoutinesJson}
PlanDietTexts == {DietJson, NotJson, DietNoMealsJson}

NextPlans ==
  \/ \E p \in Procs :
       \/ \E u \in Users, g \in FitnessGoals : generatePlan(p, u, g)
       \/ WorkoutCall(p)
       \/ \E o \in PlanAnswers(PlanWorkoutTexts) : WorkoutReturn(p, o)
       \/ DietCall(p)
       \/ \E o \in PlanAnswers(PlanDietTexts) : DietReturn(p, o)
       \/ \E d \in Dates : RunCreatePlan(p, d)
       \/ Finish(p)
  \/ \E a \in ClientPlanArgs : CreatePlan(a)

SpecPlans == Init /\ [][NextPlans]_vars

----------------------------------------------------------------------------
(* One chat request against a store that already holds a transcript *)

\* a transcript of n turns generateResponse left behind: user and assistant turns
\* in alternation, every third one of another owner when the chats are mixed
Transcript(n, mixed) ==
  [k \in 1..n |->
     [userId |-> IF mixed /\ k % 3 = 0 THEN "u2" ELSE "u1",
      role |-> IF k % 2 = 1 THEN "user" ELSE "assistant",
      content |-> ToString(k), timestamp |-> 1]]

InitChat ==
  /\ apiKey = TRUE
  /\ \E n \in 0..MaxTurns, mixed \in BOOLEAN : chatMessages = Transcript(n, mixed)
  /\ plans = <<>>
  /\ req = [p \in Procs |-> Idle]
  /\ createCalls = <<>>
  /\ page = PageStart

\* Date.now() of the turns stored after the transcript
ChatTimestamps == {2}

\* the answers of the provider the chat request runs against
ChatAnswers == {Success("Start with three sets of squats."), Failure(ErrUnavailable)}

NextChat ==
  \/ \E p \in {1} :
       \/ \E u \in Users, m \in UserMessages : generateResponse(p, u, m)
       \/ \E t \in ChatTimestamps : AddUserMessage(p, t)
       \/ GetMessages(p)
       \/ PrimaryCall(p)
       \/ \E o \in ChatAnswers : PrimaryReturn(p, o)
       \/ FallbackCall(p)
       \/ \E o \in ChatAnswers : FallbackReturn(p, o)
       \/ BackoffElapsed(p)
       \/ \E t \in ChatTimestamps : AddAssistantMessage(p, t)
  \/ \E u \in Users : ClearMessages(u)
  \/ \E u \in Users, role \in {"user", "assistant"}, t \in ChatTimestamps :
       AddMessage(u, role, ClientText, t)

SpecChat == InitChat /\ [][NextChat]_vars

----------------------------------------------------------------------------
(* Two generateResponse requests and clearMessages, interleaved at every await *)

\* the turns the store holds when the two requests start
MaxStored == 2

\* the message of the request running as p
MessageOf(p) == IF p = 1 THEN "How many squats?" ELSE "And how many lunges?"

InitInterleaved ==
  /\ apiKey = TRUE
  /\ \E n \in 0..MaxStored : chatMessages = Transcript(n, FALSE)
  /\ plans = <<>>
  /\ req = [p \in Procs |-> Idle]
  /\ createCalls = <<>>
  /\ page = PageStart

NextInterleaved ==
  \/ \E p \in Procs :
       \/ \E u \in Users : generateResponse(p, u, MessageOf(p))
       \/ \E t \in ChatTimestamps : AddUserMessage(p, t)
       \/ GetMessages(p)
       \/ PrimaryCall(p)
       \/ \E o \in ChatAnswers : PrimaryReturn(p, o)
       \/ FallbackCall(p)
       \/ \E o \in ChatAnswers : FallbackReturn(p, o)
       \/ BackoffElapsed(p)
       \/ \E t \in ChatTimestamps : AddAssistantMessage(p, t)
  \/ \E u \in Users : ClearMessages(u)

SpecInterleaved == InitInterleaved /\ [][NextInterleaved]_vars

----------------------------------------------------------------------------
(* src/app/calorie_counter/page.tsx *)

\* the files the user picks or drops, and the selections and analyses of a visit
MaxPicks == 3
MaxAnalyses == 2

\* 5 * 1024 * 1024
MaxImageSize == 5242880

Files ==
  { [name |-> "salad.png", type |-> "image/png", size |-> 204800, bytes |-> "iVBORw0KGgo="],
    [name |-> "soup.jpg", type |-> "image/jpeg", size |-> 409600, bytes |-> "/9j/4AAQSkZJ"],
    [name |-> "feast.png", type |-> "image/png", size |-> 6291456, bytes |-> "iVBORw0KFEAST"],
    [name |-> "menu.pdf", type |-> "application/pdf", size |-> 1024, bytes |-> "JVBERi0xLjQ="] }

\* FileReader.readAsDataURL: reader.result when the read has succeeded
DataURL(file) == "data:" \o file.type \o ";base64," \o file.bytes

\* s.split(",")[1]
SplitComma1(s) ==
  LET first == IndexOf(s, ",")
      rest == SubSeq(s, first + 1, Len(s))
      second == IndexOf(rest, ",")
  IN IF second = 0 THEN rest ELSE SubSeq(rest, 1, second - 1)

\* the catch block of handleAnalyze: the text shown for an Error of this message
PageErrorMessage(message) ==
  IF Includes(message, "AI service is currently busy")
    THEN "The AI service is currently busy. Please wait a moment and try again."
  ELSE IF Includes(message, "API configuration error")
    THEN "Service configuration error. Please contact support."
  ELSE IF Includes(message, "quota exceeded")
    THEN "Service limit reached. Please try again later."
  ELSE IF message # "" THEN message
  ELSE "Failed to analyze the image. Please try again."

\* what the analyzeFoodImage action may answer the page with
AnalyzeAnswers ==
  {[ok |-> TRUE, value |-> FoodResult(FoodValue).value, message |-> NoError]} \cup
  {[ok |-> FALSE, value |-> JUndefined, message |-> m] : m \in {MsgBusy, MsgSafety}}

\* handleImageSelect / handleDrop -> processImageFile: the checks, the state
\* updates, and a new FileReader that starts reading the file
processImageFile(file) ==
  /\ page.picks < MaxPicks
  /\ page' =
       IF ~StartsWith(file.type, "image/")
         THEN [page EXCEPT !.picks = @ + 1, !.error = "Please select a valid image file"]
       ELSE IF file.size > MaxImageSize
         THEN [page EXCEPT !.picks = @ + 1, !.error = "Image size should be less than 5MB"]
       ELSE [page EXCEPT !.picks = @ + 1, !.imageFile = file, !.error = NoMessage,
                         !.analysis = NoAnalysis, !.readers = @ \cup {file}]
  /\ UNCHANGED <<apiKey, chatMessages, plans, req, createCalls>>

\* reader.onloadend of the FileReader that read file
ReaderLoadEnd(file) ==
  /\ file \in page.readers
  /\ page' = [page EXCEPT !.readers = @ \ {file}, !.selectedImage = DataURL(file)]
  /\ UNCHANGED <<apiKey, chatMessages, plans, req, createCalls>>

\* a click on Analyze Food (enabled with a preview, while no analysis runs):
\* handleAnalyze up to its await
handleAnalyze ==
  /\ page.selectedImage # NoImage /\ ~page.isAnalyzing
  /\ Len(page.sent) < MaxAnalyses
  /\ page' =
       IF page.imageFile = NoFile \/ page.selectedImage = NoImage
         THEN [page EXCEPT !.error = "Please select an image first"]
         ELSE [page EXCEPT !.isAnalyzing = TRUE, !.error = NoMessage,
                           !.sent = Append(@, [imageData |-> SplitComma1(page.selectedImage),
                                               mimeType |-> page.imageFile.type])]
  /\ UNCHANGED <<apiKey, chatMessages, plans, req, createCalls>>

\* the action call of handleAnalyze has settled: setAnalysis or the catch block,
\* then the finally block
AnalyzeSettled(o) ==
  /\ page.isAnalyzing
  /\ page' = IF o.ok THEN [page EXCEPT !.analysis = o.value, !.isAnalyzing = FALSE]
             ELSE [page EXCEPT !.error = PageErrorMessage(o.message), !.isAnalyzing = FALSE]
  /\ UNCHANGED <<apiKey, chatMessages, plans, req, createCalls>>

\* a click on the X of the preview or on Analyze Another Food
handleReset ==
  /\ page.selectedImage # NoImage \/ page.analysis # NoAnalysis
  /\ page' = [page EXCEPT !.selectedImage = NoImage, !.imageFile = NoFile,
                          !.analysis = NoAnalysis, !.error = NoMessage]
  /\ UNCHANGED <<apiKey, chatMessages, plans, req, createCalls>>

InitPage ==
  /\ apiKey = TRUE
  /\ chatMessages = <<>>
  /\ plans = <<>>
  /\ req = [p \in Procs |-> Idle]
  /\ createCalls = <<>>
  /\ page = PageStart

NextPage ==
  \/ \E file \in Files : processImageFile(file)
  \/ \E file \in Files : ReaderLoadEnd(file)
  \/ handleAnalyze
  \/ \E o \in AnalyzeAnswers : AnalyzeSettled(o)
  \/ handleReset

SpecPage == InitPage /\ [][NextPage]_vars

----------------------------------------------------------------------------
(* The three normalizers, each on the values JSON.parse may hand it *)

\* a key the model left out of an object
Omitted == JUndefined

\* the object with the keys of f that are not left out
MakeObject(f) == JObj([k \in {j \in DOMAIN f : f[j] # Omitted} |-> f[k]])

NutritionalInfos ==
  {Omitted, JNull} \cup
  { MakeObject([protein |-> a, carbs |-> b, fat |-> c, fiber |-> d]) :
      a \in {Omitted, JStr("0.5g"), JStr("")}, b \in {Omitted, JStr("25g")},
      c \in {Omitted, JStr("0.3g")}, d \in {Omitted, JStr("4g")} }

FoodInputs ==
  {JNull} \cup
  { MakeObject([foodName |-> a, calories |-> b, servingSize |-> c, confidence |-> d,
                nutritionalInfo |-> e, description |-> f]) :
      a \in {Omitted, JStr("Apple"), JStr("")},
      b \in {Omitted, JNum(95), JNum(0), JStr("95"), JFrac(95, 5), JStr("about a hundred")},
      c \in {Omitted, JStr("1 medium"), JNull},
      d \in {Omitted, JStr("high")},
      e \in NutritionalInfos,
      f \in {Omitted, JStr("A red apple.")} }

CountChoices ==
  {Omitted, JNull, JNum(3), JNum(0), JNum(0 - 1), JFrac(2, 5), JStr("4 sets"), JStr("0"),
   JStr("0x10"), JStr("As many as possible")}

Routines ==
  { MakeObject([name |-> JStr("Squat"), sets |-> a, reps |-> b, rest |-> JStr("60s")]) :
      a \in CountChoices, b \in CountChoices }

SecondRoutine == JObj([name |-> JStr("Row"), sets |-> JStr("5"), reps |-> JNum(8)])

WorkoutInputs ==
  { JObj([schedule |-> JArr(<<JStr("Monday")>>), notes |-> JStr("warm up first"),
          exercises |-> JArr(<<JObj([day |-> JStr("Monday"), focus |-> JStr("legs"),
                                     routines |-> JArr(rs)])>>)]) :
      rs \in {<<r>> : r \in Routines} \cup {<<r, SecondRoutine>> : r \in Routines}
              \cup {<<>>} }
  \cup { MakeObject([schedule |-> JArr(<<>>), exercises |-> e]) :
           e \in {Omitted, JNull, JArr(<<>>), JStr("none"),
                  JArr(<<JObj([day |-> JStr("Monday")])>>)} }
  \cup {JNull}

Breakfast == JObj([name |-> JStr("Breakfast"), foods |-> JArr(<<JStr("Oatmeal")>>),
                   notes |-> JStr("warm")])
Lunch == JObj([name |-> JStr("Lunch"), foods |-> JArr(<<JStr("Rice"), JStr("Beans")>>)])
Snack == JObj([name |-> JStr("Snack"), calories |-> JNum(150)])

DietInputs ==
  {JNull} \cup
  { MakeObject([dailyCalories |-> a, meals |-> b, notes |-> c]) :
      a \in {Omitted, JNull, JNum(2200), JNum(0), JFrac(2200, 5), JStr("2200"),
             JStr("1800 kcal"), JStr("0"), JStr("plenty")},
      b \in {Omitted, JNull, JArr(<<>>), JArr(<<Breakfast>>), JArr(<<Breakfast, Lunch>>),
             JArr(<<Lunch, Breakfast>>), JArr(<<Snack>>), JArr(<<Lunch, Snack, Breakfast>>),
             JArr(<<JNull>>)},
      c \in {Omitted, JStr("drink water")} }

\* the handler of request 1 holds the value JSON.parse returned
Parsed(action, pc, v) ==
  [p \in Procs |->
     IF p = 1 THEN [Idle EXCEPT !.action = action, !.pc = pc, !.parsedData = v] ELSE Idle]

InitNormalize ==
  /\ apiKey = TRUE
  /\ chatMessages = <<>>
  /\ plans = <<>>
  /\ createCalls = <<>>
  /\ page = PageStart
  /\ \/ \E v \in FoodInputs : req = Parsed("analyzeFoodImage", "foodParsed", v)
     \/ \E v \in WorkoutInputs : req = Parsed("generatePlan", "workoutParsed", v)
     \/ \E v \in DietInputs : req = Parsed("generatePlan", "dietParsed", v)

NextNormalize ==
  \E p \in {1} :
    \/ ReturnFood(p)
    \/ ValidateWorkout(p)
    \/ ValidateDiet(p)

SpecNormalize == InitNormalize /\ [][NextNormalize]_vars

----------------------------------------------------------------------------
(* The catch blocks of generateResponse and analyzeFoodImage, on error messages
   that hold any of the substrings they test for *)

Markers ==
  <<"overloaded", "503", "API key", "API_KEY_INVALID", "quota", "QUOTA_EXCEEDED", "SAFETY",
    "invalid", "image">>

\* the message that holds the markers of the set of places, in their order
RECURSIVE MessageWith(_, _)
MessageWith(places, k) ==
  IF k > Len(Markers) THEN "."
  ELSE (IF k \in places THEN " " \o Markers[k] ELSE "") \o MessageWith(places, k + 1)

ErrorMessages == { "Error:" \o MessageWith(places, 1) : places \in SUBSET (1..Len(Markers)) }

\* the handler of request 1 has thrown an Error of this message in its try block
Thrown(action, m) ==
  [p \in Procs |->
     IF p = 1 THEN [Idle EXCEPT !.action = action, !.pc = "thrown", !.lastError = m] ELSE Idle]

InitErrors ==
  /\ apiKey = TRUE
  /\ chatMessages = <<>>
  /\ plans = <<>>
  /\ createCalls = <<>>
  /\ page = PageStart
  /\ \E action \in {"generateResponse", "analyzeFoodImage"}, m \in ErrorMessages :
       req = Thrown(action, m)

NextErrors == \E p \in {1} : CatchError(p)

SpecErrors == InitErrors /\ [][NextErrors]_vars

----------------------------------------------------------------------------
(* Properties *)

Last(s) == s[Len(s)]

RECURSIVE SumSeq(_)
SumSeq(s) == IF Len(s) = 0 THEN 0 ELSE Head(s) + SumSeq(Tail(s))

\* an answer or an attempt that failed with a service-busy error
BusyFailure(a) == ~a.ok /\ a # Pending /\ isOverloaded(a.message)

\* an answer or an attempt that failed with another error
OtherFailure(a) == ~a.ok /\ a # Pending /\ ~isOverloaded(a.message)

\* initialDelay * 2^0, ..., initialDelay * 2^(k-1)
BackoffSchedule(k) == [j \in 1..k |-> initialDelay * Pow2(j - 1)]

\* the value retryWithBackoff returned to the handler running in r
ReturnedBy(r) == IF r.action = "generateResponse" THEN r.aiResponse ELSE r.text

\* C1: when k < maxRetries service-busy failures of the wrapped call are followed
\* by a success, retryWithBackoff returns the value of that success and has waited
\* exactly initialDelay * 2^0, ..., initialDelay * 2^(k-1), in that order (2000
\* then 4000 before the third attempt), their sum in total.
C1_BackoffThenSuccess ==
  \A p \in Procs :
    LET r == req[p]
        n == Len(r.attempts)
    IN (n > 0 /\ r.attempts[n].ok /\ \A j \in 1..(n - 1) : BusyFailure(r.attempts[j]))
       => /\ n - 1 < maxRetries
          /\ ReturnedBy(r) = r.attempts[n].text
          /\ Last(r.calls).outcome = r.attempts[n]
          /\ r.waits = BackoffSchedule(n - 1)
          /\ SumSeq(r.waits) = initialDelay * (Pow2(n - 1) - 1)
          /\ r.delay = 0
          /\ (n = 3 => r.waits = <<2000, 4000>>)

C1_Witness ==
  \E p \in Procs :
    /\ req[p].pc = "done"
    /\ Len(req[p].attempts) = 3
    /\ BusyFailure(req[p].attempts[1]) /\ BusyFailure(req[p].attempts[2])
    /\ req[p].attempts[3].ok
    /\ req[p].waits = <<2000, 4000>>

\* C2: an attempt that fails with an error that is not service-busy is the last
\* one: no attempt and no backoff wait follows it and its error is the one the
\* handler catches; when it is the first attempt, there is exactly one attempt
\* and no wait at all.
C2_NonTransientNotRetried ==
  \A p \in Procs :
    LET r == req[p]
        n == Len(r.attempts)
    IN \A j \in 1..n :
         OtherFailure(r.attempts[j])
         => /\ j = n
            /\ r.pc = "failed"
            /\ r.error = r.attempts[j].message
            /\ Last(r.calls).outcome = r.attempts[j]
            /\ Last(r.calls).attempt = j - 1
            /\ Len(r.waits) = j - 1
            /\ r.delay = 0

C2_Witness ==
  \E p \in Procs :
    /\ req[p].pc = "failed"
    /\ req[p].attempts = <<Failure(ErrQuota)>>
    /\ Len(req[p].calls) = 1
    /\ req[p].waits = <<>>

\* C3: when every attempt failed service-busy and the request has failed, the
\* wrapped call was invoked exactly maxRetries times, the error caught is that of
\* the last attempt, and maxRetries - 1 waits were made, none after the last attempt.
C3_ExhaustedRetries ==
  \A p \in Procs :
    LET r == req[p]
        n == Len(r.attempts)
    IN (r.pc = "failed" /\ n > 0 /\ \A j \in 1..n : BusyFailure(r.attempts[j]))
       => /\ n = maxRetries
          /\ Cardinality({k \in 1..Len(r.calls) : r.calls[k].role = "primary"}) = maxRetries
          /\ r.error = r.attempts[n].message
          /\ r.waits = BackoffSchedule(maxRetries - 1)
          /\ r.delay = 0

C3_Witness ==
  \E p \in Procs :
    /\ req[p].pc = "failed"
    /\ Len(req[p].attempts) = 3
    /\ req[p].attempts[1] = Failure(ErrOverloaded)
    /\ req[p].attempts[2] = Failure(ErrOverloaded)
    /\ req[p].attempts[3] = Failure(ErrUnavailable)
    /\ req[p].error = ErrUnavailable

\* C4: a fallback call directly follows a primary call of the same attempt that
\* failed service-busy; after a primary call that succeeded or failed with another
\* error no fallback call is made in that attempt, and that other error is the one
\* propagated.
C4_FallbackOnlyAfterBusyPrimary ==
  \A p \in Procs :
    LET r == req[p] IN
    \A k \in 1..Len(r.calls) :
      /\ r.calls[k].role = "fallback"
         => /\ k > 1
            /\ r.calls[k - 1].role = "primary"
            /\ r.calls[k - 1].attempt = r.calls[k].attempt
            /\ BusyFailure(r.calls[k - 1].outcome)
      /\ (r.calls[k].role = "primary" /\ (r.calls[k].outcome.ok \/ OtherFailure(r.calls[k].outcome)))
         => /\ ~\E l \in 1..Len(r.calls) :
                 r.calls[l].role = "fallback" /\ r.calls[l].attempt = r.calls[k].attempt
            /\ (~r.calls[k].outcome.ok
                => r.pc = "failed" /\ r.error = r.calls[k].outcome.message)

C4_Witness ==
  \E p \in Procs :
    /\ Len(req[p].calls) = 3
    /\ req[p].calls[1].role = "primary" /\ BusyFailure(req[p].calls[1].outcome)
    /\ req[p].calls[2].role = "fallback"
    /\ req[p].calls[3].role = "primary" /\ req[p].calls[3].outcome = Failure(ErrSafety)
    /\ req[p].pc = "failed"

\* C5: a request has at most one model call in flight: a call is issued only when
\* every earlier call has answered and, for the call of attempt a, after a backoff
\* waits have elapsed and none is pending.
C5_OneCallInFlight ==
  \A p \in Procs :
    LET r == req[p] IN
    /\ r.inflight \in {0, 1}
    /\ r.inflight = Cardinality({k \in 1..Len(r.calls) : r.calls[k].outcome = Pending})
    /\ \A k \in 1..(Len(r.calls) - 1) : r.calls[k].outcome # Pending
    /\ r.inflight = 1 => r.delay = 0 /\ Last(r.calls).attempt = Len(r.waits)

C5_Witness ==
  \E p \in Procs :
    /\ req[p].inflight = 1
    /\ Len(req[p].calls) = 6
    /\ Last(req[p].calls).role = "fallback"
    /\ Last(req[p].calls).attempt = 2
    /\ req[p].waits = <<2000, 4000>>

\* C6: in each of the three actions a model call that failed service-busy is
\* followed by a fallback call or a backoff retry, unless it was the fallback call
\* of the last attempt.
C6_AllUseCasesResilient ==
  \A p \in Procs :
    LET r == req[p] IN
    \A k \in 1..Len(r.calls) :
      BusyFailure(r.calls[k].outcome)
      => \/ k < Len(r.calls)
         \/ r.pc \in {"fallback", "backoff", "primary"}
         \/ r.calls[k].role = "fallback" /\ r.calls[k].attempt = maxRetries - 1

\* C7: without the API credential no model call is issued by any action.
C7_NoCallWithoutCredential ==
  ~apiKey => \A p \in Procs : req[p].calls = <<>>

\* C8: the failure of the credential check is surfaced with the configuration
\* error message.
C8_MissingKeyIsConfigError ==
  \A p \in Procs :
    (req[p].pc = "failed" /\ req[p].error = ErrKeyMissing) => req[p].thrown = MsgConfig

\* the rows of the plans table of owner u
PlansOf(u) == {k \in 1..Len(plans) : plans[k].userId = u}
ActivePlansOf(u) == {k \in PlansOf(u) : plans[k].isActive}

\* C9: in every state of the plans table, under interleaved generatePlan requests
\* and createPlan calls, at most one plan of an owner is active.
C9_AtMostOneActive ==
  \A u \in Users : Cardinality(ActivePlansOf(u)) <= 1

C9_Witness ==
  /\ req[1].pc = "createPlan" /\ req[2].pc = "done"
  /\ req[1].userId = req[2].userId
  /\ Cardinality(PlansOf(req[1].userId)) = 2
  /\ Cardinality(ActivePlansOf(req[1].userId)) = 1

\* C10: when each of the N >= 1 createPlan calls made for an owner had
\* isActive = true, the owner has N stored plans, exactly one of them is active
\* and it is the one created last.
C10_NewestIsTheActiveOne ==
  \A u \in Users :
    LET mine == SelectSeq(createCalls, LAMBDA a : a.userId = u) IN
    (Len(mine) >= 1 /\ \A j \in 1..Len(mine) : mine[j].isActive)
    => /\ Cardinality(PlansOf(u)) = Len(mine)
       /\ ActivePlansOf(u) = {CHOOSE k \in PlansOf(u) : \A l \in PlansOf(u) : l <= k}
       /\ \A k \in 1..Len(plans) : plans[k].id = k

C10_Witness ==
  \E u \in Users :
    /\ Len(createCalls) = 3
    /\ \A j \in 1..3 : createCalls[j].userId = u /\ createCalls[j].isActive
    /\ ActivePlansOf(u) = {3}

\* the rows of the store that hold the user turn of the request running in r
UserTurnsOf(r) ==
  { k \in 1..Len(chatMessages) :
      /\ chatMessages[k].userId = r.userId
      /\ chatMessages[k].role = "user"
      /\ chatMessages[k].content = r.userMessage }

\* the rows of the store that hold an assistant turn
AssistantTurns == { k \in 1..Len(chatMessages) : chatMessages[k].role = "assistant" }

\* the model call of the request running in r that succeeded with this text
AnsweredWith(r, text) ==
  \E k \in 1..Len(r.calls) : r.calls[k].outcome = Success(text)

\* C11: generateResponse stores the user turn before its first model call; an
\* assistant turn is stored only with the text a model call succeeded with; and
\* when the model calls fail, the store keeps the user turn, as its newest row,
\* with no assistant reply
C11_UserTurnSurvivesFailure ==
  \A p \in Procs :
    LET r == req[p] IN
    r.action = "generateResponse" =>
      /\ r.calls # <<>> => UserTurnsOf(r) # {}
      /\ \A k \in AssistantTurns :
           /\ AnsweredWith(r, chatMessages[k].content)
           /\ \E j \in UserTurnsOf(r) : j < k
      /\ (r.pc = "failed" /\ r.calls # <<>>) =>
           /\ Len(chatMessages) \in UserTurnsOf(r)
           /\ AssistantTurns = {}

C11_Witness ==
  /\ req[1].action = "generateResponse"
  /\ req[1].pc = "failed"
  /\ Len(req[1].calls) = 2 * maxRetries
  /\ Len(chatMessages) = 1
  /\ chatMessages[1].role = "user"

\* the handler of request p takes this step
StepOf(p) == req'[p] # req[p]

\* both model calls of the generatePlan request in r succeeded with JSON that
\* parsed, and validateWorkoutPlan and validateDietPlan returned r's two plans
BothNormalized(r) ==
  /\ Len(r.calls) = 2
  /\ \A k \in 1..2 : r.calls[k].outcome.ok /\ JSONparse(r.calls[k].outcome.text).ok
  /\ validateWorkoutPlan(JSONparse(r.calls[1].outcome.text).value) = Ok(r.workoutPlan)
  /\ validateDietPlan(JSONparse(r.calls[2].outcome.text).value) = Ok(r.dietPlan)

\* C12: a step of generatePlan writes the plans table only as createPlan, which is
\* requested only after both answers were obtained, parsed and normalized; a step
\* that fails the request leaves the table, the active plan included, as it was
C12_NoWriteBeforeBothNormalized ==
  [][\A p \in Procs :
       (StepOf(p) /\ req'[p].action = "generatePlan") =>
         /\ req'[p].pc = "createPlan" => BothNormalized(req'[p])
         /\ plans' # plans => (req[p].pc = "createPlan" /\ BothNormalized(req[p]))
         /\ createCalls' # createCalls => req[p].pc = "createPlan"
         /\ req'[p].pc = "failed" => (plans' = plans /\ createCalls' = createCalls)]_vars

\* the diet answer of a request did not parse while its owner has an active plan
C12_Witness ==
  \E p \in Procs :
    /\ req[p].action = "generatePlan"
    /\ req[p].pc = "failed"
    /\ Len(req[p].calls) = 2
    /\ req[p].calls[2].outcome = Success(NotJson)
    /\ \E k \in 1..Len(plans) : plans[k].userId = req[p].userId /\ plans[k].isActive

\* the history the owner's turns own call for: the turns before the newest, the
\* ten latest of them, oldest first, assistant turns under the role "model"
ExpectedHistory(own) ==
  LET n == Len(own)
      prior == IF n = 0 THEN 0 ELSE n - 1
      count == IF prior < 10 THEN prior ELSE 10
  IN [k \in 1..count |->
        [role |-> IF own[prior - count + k].role = "assistant" THEN "model" ELSE "user",
         text |-> own[prior - count + k].content]]

\* C13: the history generateResponse builds when it reads the store is, in creation
\* order, the at most ten turns of the owner right before the owner's newest turn,
\* user as "user" and assistant as "model", the newest turn left out
C13_HistoryWindow ==
  [][\A p \in Procs :
       (req[p].pc = "getMessages" /\ req'[p].pc = "primary") =>
         req'[p].conversationHistory = ExpectedHistory(getMessages(req[p].userId))]_vars

\* twelve prior turns and the new one: the history is turns 3 to 12
C13_Witness ==
  /\ req[1].pc = "primary"
  /\ Len(req[1].calls) = 0
  /\ Len(getMessages(req[1].userId)) = 13
  /\ Len(req[1].conversationHistory) = 10
  /\ req[1].conversationHistory[1] = [role |-> "user", text |-> "3"]
  /\ req[1].conversationHistory[10] = [role |-> "model", text |-> "12"]
  /\ Last(chatMessages).content = req[1].userMessage

\* the store s continues the store t: every turn of t is in s as it was
Continues(s, t) == Len(s) >= Len(t) /\ SubSeq(s, 1, Len(t)) = t

\* C14: every step leaves every stored turn as it was, owner, role, text and
\* timestamp, and at its place, unless it is a clearMessages step, which removes
\* turns and leaves the others as they were
C14_TurnsImmutable ==
  [][\/ Continues(chatMessages', chatMessages)
     \/ \E u \in Users :
          /\ ClearMessages(u)
          /\ chatMessages' = SelectSeq(chatMessages, LAMBDA m : m \in
                { chatMessages'[k] : k \in 1..Len(chatMessages') })]_vars

\* a request stored both of its turns behind a transcript that is still there
C14_Witness ==
  /\ req[1].pc = "done"
  /\ Len(chatMessages) = MaxTurns + 2
  /\ SubSeq(chatMessages, 1, MaxTurns) = Transcript(MaxTurns, TRUE)
  /\ Last(chatMessages).role = "assistant"

\* the documented defaults of the food-analysis schema
FoodDefaults ==
  [foodName |-> JStr("Unknown Food"), calories |-> JNum(0), servingSize |-> JStr("Unknown"),
   confidence |-> JStr("low"), description |-> JStr("Could not analyze the food.")]
NutrientNames == {"protein", "carbs", "fat", "fiber"}

\* the object v has the key
Has(v, key) == v.t = "obj" /\ key \in DOMAIN v.o

\* analyzeFoodImage returned for a parsedData that is an object
FoodReturned(r) == r.pc = "done" /\ r.action = "analyzeFoodImage" /\ r.parsedData.t = "obj"

\* C15 as stated: every field the input omits has its default in the result, and
\* every field the input has is passed through
C15_DefaultsForOmitted ==
  \A p \in Procs :
    LET r == req[p]
        info == Get(r.parsedData, "nutritionalInfo")
    IN FoodReturned(r) =>
         /\ \A key \in DOMAIN FoodDefaults :
              r.food[key] = IF Has(r.parsedData, key) THEN r.parsedData.o[key]
                            ELSE FoodDefaults[key]
         /\ \A key \in NutrientNames :
              r.food.nutritionalInfo[key] = IF Has(info, key) THEN info.o[key] ELSE JStr("N/A")

\* C15, amended: the result has exactly the fields of the schema; a field the input
\* omits, or has with a falsy value (null, "", 0), has its default, and a field the
\* input has with any other value is passed through
C15_DefaultsForOmittedOrFalsy ==
  \A p \in Procs :
    LET r == req[p]
        info == Get(r.parsedData, "nutritionalInfo")
    IN FoodReturned(r) =>
         /\ DOMAIN r.food = DOMAIN FoodDefaults \cup {"nutritionalInfo"}
         /\ DOMAIN r.food.nutritionalInfo = NutrientNames
         /\ \A key \in DOMAIN FoodDefaults :
              r.food[key] = IF Has(r.parsedData, key) /\ Truthy(r.parsedData.o[key])
                              THEN r.parsedData.o[key]
                              ELSE FoodDefaults[key]
         /\ \A key \in NutrientNames :
              r.food.nutritionalInfo[key] = IF Has(info, key) /\ Truthy(info.o[key])
                                              THEN info.o[key]
                                              ELSE JStr("N/A")

\* an omitted field, an empty one and a present one in the same input
C15_Witness ==
  /\ FoodReturned(req[1])
  /\ DOMAIN req[1].parsedData.o = {"foodName", "calories", "nutritionalInfo"}
  /\ req[1].parsedData.o.foodName = JStr("")
  /\ req[1].parsedData.o.calories = JNum(95)
  /\ req[1].food.foodName = JStr("Unknown Food")
  /\ req[1].food.calories = JNum(95)
  /\ req[1].food.description = JStr("Could not analyze the food.")
  /\ req[1].food.nutritionalInfo.fiber = JStr("4g")

\* the model answered the last call of the request in r with a text
RawOutput(r) == r.calls # <<>> /\ Last(r.calls).outcome.ok

\* C16: whatever text the model answered with, the handler that normalizes it
\* (food, workout, diet) does not fail
C16_NormalizerNeverRaises ==
  \A p \in Procs :
    (req[p].action \in {"analyzeFoodImage", "generatePlan"} /\ RawOutput(req[p]))
      => req[p].pc # "failed"

\* Number.isInteger(v)
IsInteger(v) == v.t = "num" /\ v.tenths = 0

\* C17: the calories of every result analyzeFoodImage returns is an integer
C17_CaloriesIsInteger ==
  \A p \in Procs :
    (req[p].action = "analyzeFoodImage" /\ req[p].pc = "done")
      => IsInteger(req[p].food.calories)

\* validateWorkoutPlan returned for a plan whose exercises it mapped
WorkoutValidated(r) ==
  /\ r.pc = "validated" /\ r.action = "generatePlan"
  /\ r.workoutPlan # JUndefined
  /\ Truthy(Get(r.parsedData, "exercises"))

\* v and w are objects that differ in the given keys at most
SameExcept(v, w, keys) ==
  /\ v.t = "obj" /\ w.t = "obj"
  /\ DOMAIN w.o \ keys = DOMAIN v.o \ keys
  /\ \A key \in DOMAIN v.o \ keys : w.o[key] = v.o[key]

\* the integers the strings of the inputs start with, and what parseInt returns
LeadingInteger == [x \in {"4 sets", "5", "0", "0x10"} |-> IF x = "4 sets" THEN 4 ELSE IF x = "5" THEN 5 ELSE 0]
ParsedInteger == [x \in {"4 sets", "5", "0", "0x10"} |-> IF x = "0x10" THEN 16 ELSE LeadingInteger[x]]

\* the count C18 states for the value v: a number as it is, the leading integer of
\* a string, the default otherwise
StatedCount(v, dflt) ==
  IF v.t = "num" THEN v
  ELSE IF v.t = "str" /\ v.s \in DOMAIN LeadingInteger THEN JNum(LeadingInteger[v.s])
  ELSE JNum(dflt)

\* the same, with the default also where parseInt returns 0
ParsedCount(v, dflt) ==
  IF v.t = "num" THEN v
  ELSE IF v.t = "str" /\ v.s \in DOMAIN ParsedInteger /\ ParsedInteger[v.s] # 0
    THEN JNum(ParsedInteger[v.s])
  ELSE JNum(dflt)

\* the routines of the plan, as pairs of exercise and routine number
RoutinesOf(plan) ==
  UNION { { <<e, k>> : k \in 1..Len(Items(Get(plan, "exercises").a[e].o.routines)) } :
            e \in 1..Len(Items(Get(plan, "exercises"))) }
RoutineAt(plan, ek) == Get(plan, "exercises").a[ek[1]].o.routines.a[ek[2]]

\* the plan and its exercises are as they were, sets and reps of the routines aside
WorkoutFrame(in, out) ==
  /\ SameExcept(in, out, {"exercises"})
  /\ Len(Items(Get(out, "exercises"))) = Len(Items(Get(in, "exercises")))
  /\ \A e \in 1..Len(Items(Get(in, "exercises"))) :
       /\ SameExcept(Get(in, "exercises").a[e], Get(out, "exercises").a[e], {"routines"})
       /\ Len(Items(Get(out, "exercises").a[e].o.routines))
            = Len(Items(Get(in, "exercises").a[e].o.routines))
  /\ \A ek \in RoutinesOf(in) :
       /\ SameExcept(RoutineAt(in, ek), RoutineAt(out, ek), {"sets", "reps"})
       /\ DOMAIN RoutineAt(out, ek).o = DOMAIN RoutineAt(in, ek).o \cup {"sets", "reps"}

\* C18 as stated: sets and reps of every routine are the number they were, the
\* leading integer of the string they were, or else 3 and 10; nothing else changes
C18_SetsAndRepsNormalized ==
  \A p \in Procs :
    LET r == req[p] IN
    WorkoutValidated(r) =>
      /\ WorkoutFrame(r.parsedData, r.workoutPlan)
      /\ \A ek \in RoutinesOf(r.parsedData) :
           /\ Get(RoutineAt(r.workoutPlan, ek), "sets")
                = StatedCount(Get(RoutineAt(r.parsedData, ek), "sets"), 3)
           /\ Get(RoutineAt(r.workoutPlan, ek), "reps")
                = StatedCount(Get(RoutineAt(r.parsedData, ek), "reps"), 10)

\* C18, amended: sets and reps of every routine are the number they were, what
\* parseInt makes of the string they were unless that is 0, or else 3 and 10;
\* nothing else changes
C18_SetsAndRepsParsed ==
  \A p \in Procs :
    LET r == req[p] IN
    WorkoutValidated(r) =>
      /\ WorkoutFrame(r.parsedData, r.workoutPlan)
      /\ \A ek \in RoutinesOf(r.parsedData) :
           /\ Get(RoutineAt(r.workoutPlan, ek), "sets")
                = ParsedCount(Get(RoutineAt(r.parsedData, ek), "sets"), 3)
           /\ Get(RoutineAt(r.workoutPlan, ek), "reps")
                = ParsedCount(Get(RoutineAt(r.parsedData, ek), "reps"), 10)

\* two routines: sets "0" and reps in words fall back, sets "5" and reps 8 are kept
C18_Witness ==
  /\ WorkoutValidated(req[1])
  /\ RoutinesOf(req[1].parsedData) = {<<1, 1>>, <<1, 2>>}
  /\ Get(RoutineAt(req[1].parsedData, <<1, 1>>), "sets") = JStr("0")
  /\ Get(RoutineAt(req[1].parsedData, <<1, 1>>), "reps") = JStr("As many as possible")
  /\ Get(RoutineAt(req[1].workoutPlan, <<1, 1>>), "sets") = JNum(3)
  /\ Get(RoutineAt(req[1].workoutPlan, <<1, 1>>), "reps") = JNum(10)
  /\ Get(RoutineAt(req[1].workoutPlan, <<1, 1>>), "rest") = JStr("60s")
  /\ Get(RoutineAt(req[1].workoutPlan, <<1, 2>>), "sets") = JNum(5)
  /\ Get(RoutineAt(req[1].workoutPlan, <<1, 2>>), "reps") = JNum(8)

\* the routines of the workout plan of a stored plan
StoredRoutines(plan) ==
  UNION { { plan.workoutPlan.o.exercises.a[e].o.routines.a[k] :
              k \in 1..Len(plan.workoutPlan.o.exercises.a[e].o.routines.a) } :
            e \in 1..Len(plan.workoutPlan.o.exercises.a) }

\* C19: sets and reps of every routine of every plan generatePlan stored are
\* integers of at least 1
C19_StoredCountsPositive ==
  \A k \in 1..Len(plans) :
    \A routine \in StoredRoutines(plans[k]) :
      /\ IsInteger(routine.o.sets) /\ routine.o.sets.n >= 1
      /\ IsInteger(routine.o.reps) /\ routine.o.reps.n >= 1

\* validateDietPlan returned
DietValidated(r) ==
  r.pc = "validated" /\ r.action = "generatePlan" /\ r.dietPlan # JUndefined

\* the integer C20 states for the dailyCalories v of the model: the integer it is
\* or starts with, 2000 when it is absent or does not parse
StatedCalories(v) ==
  IF IsInteger(v) THEN v
  ELSE IF v.t = "num" THEN JNum(v.n)
  ELSE IF v = JStr("2200") THEN JNum(2200)
  ELSE IF v = JStr("1800 kcal") THEN JNum(1800)
  ELSE IF v = JStr("0") THEN JNum(0)
  ELSE JNum(2000)

\* C20: validateDietPlan returns exactly dailyCalories, the model's value as an
\* integer or 2000, and meals, as many and in the order of the model's, each with
\* exactly the name and the foods it had
C20_DietProjected ==
  \A p \in Procs :
    LET r == req[p]
        in == Items(Get(r.parsedData, "meals"))
        out == Items(Get(r.dietPlan, "meals"))
    IN DietValidated(r) =>
         /\ DOMAIN r.dietPlan.o = {"dailyCalories", "meals"}
         /\ IsInteger(r.dietPlan.o.dailyCalories)
         /\ r.dietPlan.o.dailyCalories = StatedCalories(Get(r.parsedData, "dailyCalories"))
         /\ Len(out) = Len(in)
         /\ \A k \in 1..Len(in) :
              /\ DOMAIN out[k].o = {"name", "foods"}
              /\ out[k].o.name = Get(in[k], "name")
              /\ out[k].o.foods = Get(in[k], "foods")

\* the taxonomy, in its order of priority: the substrings of which one, or all,
\* select the category, the handlers that know it, and its message
Taxonomy ==
  << [any |-> {"overloaded", "503"}, all |-> {}, food |-> FALSE, message |-> MsgBusy],
     [any |-> {"API key", "API_KEY_INVALID"}, all |-> {}, food |-> FALSE, message |-> MsgConfig],
     [any |-> {"quota", "QUOTA_EXCEEDED"}, all |-> {}, food |-> FALSE, message |-> MsgQuota],
     [any |-> {"SAFETY"}, all |-> {}, food |-> TRUE, message |-> MsgSafety],
     [any |-> {}, all |-> {"invalid", "image"}, food |-> TRUE, message |-> MsgBadImage] >>

\* the categories of the taxonomy that the message of the handler's error is in
Categories(action, m) ==
  { k \in 1..Len(Taxonomy) :
      /\ Taxonomy[k].food => action = "analyzeFoodImage"
      /\ \/ \E sub \in Taxonomy[k].any : Includes(m, sub)
         \/ Taxonomy[k].all # {} /\ \A sub \in Taxonomy[k].all : Includes(m, sub) }

\* the message the failure is surfaced with: that of the first category, or
\* Unknown with the raw message
Surfaced(action, m) ==
  IF Categories(action, m) = {}
    THEN (IF action = "analyzeFoodImage" THEN "Failed to analyze the image: "
          ELSE "Failed to generate AI response: ") \o m
    ELSE Taxonomy[CHOOSE k \in Categories(action, m) : \A j \in Categories(action, m) : k <= j].message

\* C21: a failed generateResponse or analyzeFoodImage request throws the message
\* of the first category of the taxonomy its error message is in, Unknown with the
\* raw message when it is in none
C21_FailureTaxonomy ==
  \A p \in Procs :
    (req[p].pc = "failed" /\ req[p].action \in {"generateResponse", "analyzeFoodImage"})
      => req[p].thrown = Surfaced(req[p].action, req[p].error)

\* an error that is busy, quota and content-rejected at once is surfaced as busy
C21_Witness ==
  /\ req[1].pc = "failed"
  /\ req[1].action = "analyzeFoodImage"
  /\ req[1].error = "Error: 503 quota SAFETY."
  /\ req[1].thrown = MsgBusy

\* the calls of the request in r that open an attempt of the retry loop
FirstCalls(r) ==
  { k \in 1..Len(r.calls) : k = 1 \/ r.calls[k - 1].attempt # r.calls[k].attempt }

\* C22: every attempt of the retry loop opens with a call of the primary model,
\* also after an attempt that went to the fallback model, and every call of the
\* request passes the history and the message of its first call
C22_RetryRepeatsTheCall ==
  \A p \in Procs :
    LET r == req[p] IN
    r.action \in {"generateResponse", "analyzeFoodImage"} =>
      /\ \A k \in FirstCalls(r) : r.calls[k].role = "primary" /\ r.calls[k].model = PrimaryModel
      /\ \A k \in 1..Len(r.calls) :
           /\ r.calls[k].history = r.calls[1].history
           /\ r.calls[k].message = r.calls[1].message
           /\ r.calls[k].role = "fallback" => r.calls[k].model = FallbackModel
      /\ \A a \in 0..(maxRetries - 1) :
           (r.pc \notin {"idle", "addUserMessage", "getMessages"} /\ a < r.i)
             => \E k \in FirstCalls(r) : r.calls[k].attempt = a

\* the second attempt calls the primary model again, with the ten turns of history
\* the first attempt passed, after the store was cleared in between
C22_Witness ==
  /\ Len(req[1].calls) = 3
  /\ req[1].calls[2].role = "fallback"
  /\ req[1].calls[3].role = "primary"
  /\ req[1].calls[3].attempt = 1
  /\ Len(req[1].calls[3].history) = 10
  /\ chatMessages = <<>>

\* the numbers of the calls of the request in r made in attempt a
CallsOf(r, a) == { k \in 1..Len(r.calls) : r.calls[k].attempt = a }

\* in attempt a the primary model and then the fallback model failed service-busy
BothBusy(r, a) ==
  \E k \in 1..(Len(r.calls) - 1) :
    /\ CallsOf(r, a) = {k, k + 1}
    /\ r.calls[k].role = "primary" /\ BusyFailure(r.calls[k].outcome)
    /\ r.calls[k + 1].role = "fallback" /\ BusyFailure(r.calls[k + 1].outcome)

\* C23: a wait, and the attempt after it, follow only an attempt in which the
\* primary and then the fallback model failed service-busy; when the fallback
\* model fails otherwise, the request fails with that error, with no further wait
\* or call
C23_BackoffOnlyWhenBothBusy ==
  \A p \in Procs :
    LET r == req[p] IN
    r.action \in {"generateResponse", "analyzeFoodImage"} =>
      /\ r.pc = "backoff" => BothBusy(r, r.i)
      /\ \A a \in 0..(maxRetries - 1) : a < r.i => BothBusy(r, a)
      /\ \A k \in 1..Len(r.calls) :
           (r.calls[k].role = "fallback" /\ OtherFailure(r.calls[k].outcome)) =>
             /\ k = Len(r.calls)
             /\ r.pc = "failed"
             /\ r.error = r.calls[k].outcome.message
             /\ Len(r.waits) = r.calls[k].attempt

\* the fallback model failed otherwise in the first attempt: no wait, two calls
C23_Witness ==
  /\ req[1].pc = "failed"
  /\ Len(req[1].calls) = 2
  /\ req[1].calls[2].role = "fallback"
  /\ req[1].calls[2].outcome = Failure(ErrQuota)
  /\ req[1].waits = <<>>
  /\ req[1].i = 0

\* the calls of the request in r that went to the model in this role
CallsAs(r, role) == { k \in 1..Len(r.calls) : r.calls[k].role = role }

\* C24: a generateResponse or analyzeFoodImage request makes at most maxRetries
\* attempts, at most three calls of the primary and three of the fallback model
\* and at most the two waits of 2000 and 4000 ms, and it ends: it returns or throws
C24_TerminatesWithinBounds ==
  /\ [](\A p \in Procs :
          LET r == req[p] IN
          r.action \in {"generateResponse", "analyzeFoodImage"} =>
            /\ r.i < maxRetries
            /\ Len(r.attempts) <= maxRetries
            /\ Cardinality(CallsAs(r, "primary")) <= 3
            /\ Cardinality(CallsAs(r, "fallback")) <= 3
            /\ Len(r.waits) <= 2
            /\ r.waits = SubSeq(<<2000, 4000>>, 1, Len(r.waits)))
  /\ \A p \in Procs :
       (req[p].action \in {"generateResponse", "analyzeFoodImage"})
         ~> (req[p].pc \in {"done", "failed"})

\* a request that used up three calls of each model and both waits, and threw
C24_Witness ==
  /\ req[1].pc = "failed"
  /\ req[1].action = "analyzeFoodImage"
  /\ Cardinality(CallsAs(req[1], "primary")) = 3
  /\ Cardinality(CallsAs(req[1], "fallback")) = 3
  /\ req[1].waits = <<2000, 4000>>

\* the calls of the request in r that the model answered with a text
Answered(r) == { k \in 1..Len(r.calls) : r.calls[k].outcome \in {Success(t) : t \in FoodTexts} }

\* C25: once a model call of analyzeFoodImage has returned a text, it is the last
\* call of the request and no wait follows it: the request is parsing, has
\* returned, or has failed with the error of the parsing, whatever its message
C25_ParseOutsideRetry ==
  \A p \in Procs :
    LET r == req[p] IN
    r.action = "analyzeFoodImage" =>
      \A k \in Answered(r) :
        /\ k = Len(r.calls)
        /\ r.pc \in {"parse", "foodParsed", "done", "failed"}
        /\ Len(r.waits) = r.calls[k].attempt
        /\ r.text = r.calls[k].outcome.text
        /\ r.pc = "failed" => ~JSONparse(StripFence(r.text)).ok \/ ~FoodResult(JSONparse(StripFence(r.text)).value).ok

\* the model answered the first call with a word; the SyntaxError of JSON.parse
\* quotes it, the catch block reports service-busy, and nothing was retried
C25_Witness ==
  /\ req[1].action = "analyzeFoodImage"
  /\ req[1].pc = "failed"
  /\ Len(req[1].calls) = 1
  /\ req[1].calls[1].outcome = Success(OverloadedText)
  /\ isOverloaded(req[1].error)
  /\ req[1].thrown = MsgBusy
  /\ req[1].waits = <<>>

\* the user turn the request in r stored, as an entry of a history
OwnTurn(r) == [role |-> "user", text |-> r.userMessage]

\* C26: the history a generateResponse request passes to the model does not hold
\* the user turn this request stored, also when another request of the same owner
\* runs between its addMessage and its getMessages
C26_HistoryExcludesOwnTurn ==
  \A p \in Procs :
    LET r == req[p] IN
    r.action = "generateResponse" =>
      \A k \in 1..Len(r.calls) :
        \A j \in 1..Len(r.calls[k].history) : r.calls[k].history[j] # OwnTurn(r)

\* C27: every assistant turn in the store comes after a user turn of its owner
C27_AssistantAfterUser ==
  \A k \in 1..Len(chatMessages) :
    chatMessages[k].role = "assistant" =>
      \E j \in 1..(k - 1) :
        /\ chatMessages[j].role = "user"
        /\ chatMessages[j].userId = chatMessages[k].userId

\* C28: a clearMessages(u) step leaves getMessages(u) empty, and getMessages of
\* every other owner returns the turns it returned before, in the same order
C28_ClearRemovesOwnTurnsOnly ==
  [][\A u \in Users :
       ClearMessages(u) =>
         /\ getMessages(u)' = <<>>
         /\ \A v \in Users \ {u} : getMessages(v)' = getMessages(v)]_vars

\* the turns of u1 were cleared from the longest mixed transcript; those of u2
\* are all there, in their order
C28_Witness ==
  /\ getMessages("u1") = <<>>
  /\ chatMessages = SelectSeq(Transcript(MaxTurns, TRUE), LAMBDA m : m.userId = "u2")
  /\ Len(chatMessages) >= 2

\* the arguments of the createPlan call that ran last
LastCreate == createCalls[Len(createCalls)]

\* C29: a createPlan call leaves every earlier plan of its owner inactive, whatever
\* isActive it passes; the earlier plans differ from before in isActive at most,
\* those of other owners not at all; after a call with isActive = false the owner
\* has no active plan
C29_CreateDeactivatesOwnPlansOnly ==
  [][createCalls' # createCalls =>
       LET a == LastCreate' IN
       /\ Len(plans') = Len(plans) + 1
       /\ \A k \in 1..Len(plans) :
            /\ plans[k].userId = a.userId => plans'[k] = [plans[k] EXCEPT !.isActive = FALSE]
            /\ plans[k].userId # a.userId => plans'[k] = plans[k]
       /\ plans'[Len(plans')].userId = a.userId
       /\ plans'[Len(plans')].isActive = a.isActive
       /\ ~a.isActive => \A k \in 1..Len(plans') : plans'[k].userId = a.userId => ~plans'[k].isActive]_vars

\* the owner's active plan was followed by a createPlan call with isActive = false:
\* the owner has two plans, none active, and the other owner's plan is still active
C29_Witness ==
  /\ Len(createCalls) = 3
  /\ ~LastCreate.isActive
  /\ createCalls[1].isActive /\ createCalls[1].userId = LastCreate.userId
  /\ createCalls[2].isActive /\ createCalls[2].userId # LastCreate.userId
  /\ ActivePlansOf(LastCreate.userId) = {}
  /\ ActivePlansOf(createCalls[2].userId) = {2}

\* C30: every call of analyzeFoodImage sends the bytes and the type of one file,
\* and a preview is shown only while a selected file is held
C30_SentTypeMatchesBytes ==
  /\ \A k \in 1..Len(page.sent) :
       \E file \in Files :
         /\ page.sent[k].imageData = file.bytes
         /\ page.sent[k].mimeType = file.type
  /\ page.selectedImage # NoImage => page.imageFile # NoFile
====
